---- MODULE Spec2Model ----
(***************************************************************************)
(* Model of the NBC / NSSF / GDT exchange-rate scraper (src/index.js):     *)
(* the Express handlers, the Puppeteer scrape and capture sequences, the   *)
(* header-driven table extraction and the two HTML renderers.              *)
(*                                                                         *)
(* Text.  A JavaScript string is a sequence of atoms.  An atom is a TLA+   *)
(* string standing for one character (" ", "\n", "<", "4", ...) or for an  *)
(* opaque run of letters ("Currency", "Dollar").  Whitespace, digits and   *)
(* markup characters are always single atoms, so trimming, collapsing,     *)
(* number parsing and escaping see them exactly as the code does.          *)
(*                                                                         *)
(* Objects.  A JavaScript object is the sequence of its own properties     *)
(* [k, v] in insertion order; assignment to an existing key overwrites in  *)
(* place, and Object.keys lists integer-index keys first, in ascending     *)
(* order, then the other keys in insertion order.                          *)
(***************************************************************************)
EXTENDS Naturals, Sequences, FiniteSets, TLC

VARIABLES
    env,            \* process.env at start-up: the variables that are set
    endpoint,       \* route of the request being served, "none" before it
    date,           \* req.query.date ?? ''
    pc,             \* position of the handler
    exc,            \* exception in flight: "none" or the step that threw
    log,            \* the steps attempted so far, in order, each [op, ok]
    scrapeBrowser,  \* browser of scrapeNBC / scrapeNSSF / scrapeExchangeRate
    captureBrowser, \* browser of saveHtmlTableAsImage / of the chart capture
    page,           \* the document the scrape browser shows
    data,           \* the snapshot returned by scrapeNBC
    filteredData,   \* the filtered snapshot of /nbc-filtered-exr-table
    scraped,        \* what scrapeNSSF / scrapeExchangeRate returned
    warnings,       \* console.warn lines of the extraction
    html,           \* the rendered document (a sequence of atoms)
    container,      \* what page.$ returned in the capture
    imagePath,      \* value returned by saveHtmlTableAsImage
    files,          \* files written by this request
    dirs,           \* directories that exist
    responses,      \* responses sent on res, in order
    telegram,       \* outcome of sendImageToTelegram
    unlinkState     \* fs.unlink of the temporary image

reqVars == <<env, endpoint, date>>
ctlVars == <<pc, exc, log>>
browserVars == <<scrapeBrowser, captureBrowser>>
scrapeVars == <<page, data, filteredData, scraped, warnings>>
captureVars == <<html, container, imagePath>>
fsVars == <<files, dirs>>
outVars == <<responses, telegram, unlinkState>>

vars == <<reqVars, ctlVars, browserVars, scrapeVars, captureVars, fsVars, outVars>>

----------------------------------------------------------------------------
(* Bounds of the explored inputs.                                          *)

MaxRows == 2
MaxTextLen == 3
MaxRecords == 2

----------------------------------------------------------------------------
(* Strings.                                                                *)

\* JavaScript white space, as matched by String.prototype.trim and by \s.
IsWs(c) == c \in {" ", "\n", "\t"}

RECURSIVE TrimStart(_)
TrimStart(s) ==
    IF s = <<>> THEN <<>>
    ELSE IF IsWs(Head(s)) THEN TrimStart(Tail(s)) ELSE s

RECURSIVE TrimEnd(_)
TrimEnd(s) ==
    IF s = <<>> THEN <<>>
    ELSE IF IsWs(s[Len(s)]) THEN TrimEnd(SubSeq(s, 1, Len(s) - 1)) ELSE s

\* String.prototype.trim
Trim(s) == TrimEnd(TrimStart(s))

\* s.replace(/\s+/g, ' '): every maximal run of white space becomes one space.
RECURSIVE ReplaceWsRuns(_)
ReplaceWsRuns(s) ==
    IF s = <<>> THEN <<>>
    ELSE IF IsWs(Head(s)) THEN <<" ">> \o ReplaceWsRuns(TrimStart(s))
    ELSE <<Head(s)>> \o ReplaceWsRuns(Tail(s))

\* s.replace(/-/g, '_')
RECURSIVE ReplaceDashes(_)
ReplaceDashes(s) ==
    IF s = <<>> THEN <<>>
    ELSE <<IF Head(s) = "-" THEN "_" ELSE Head(s)>> \o ReplaceDashes(Tail(s))

Digits == <<"0", "1", "2", "3", "4", "5", "6", "7", "8", "9">>

IsDigit(c) == \E d \in 1..Len(Digits) : Digits[d] = c

DigitVal(c) == (CHOOSE d \in 1..Len(Digits) : Digits[d] = c) - 1

RECURSIVE NumVal(_)
NumVal(s) ==
    IF s = <<>> THEN 0 ELSE NumVal(SubSeq(s, 1, Len(s) - 1)) * 10 + DigitVal(s[Len(s)])

----------------------------------------------------------------------------
(* Objects.                                                                *)

\* The value of a property the object does not have.
Undefined == <<"\\undefined">>

ObjHas(o, k) == \E i \in 1..Len(o) : o[i].k = k

ObjGet(o, k) ==
    IF ObjHas(o, k) THEN o[CHOOSE i \in 1..Len(o) : o[i].k = k].v ELSE Undefined

\* o[k] = v
ObjSet(o, k, v) ==
    IF ObjHas(o, k)
    THEN [i \in 1..Len(o) |-> IF o[i].k = k THEN [k |-> k, v |-> v] ELSE o[i]]
    ELSE Append(o, [k |-> k, v |-> v])

\* A canonical array index: decimal digits, no leading zero.
IsArrayIndex(k) ==
    /\ Len(k) > 0
    /\ \A i \in 1..Len(k) : IsDigit(k[i])
    /\ (Len(k) = 1 \/ k[1] # "0")

RECURSIVE SortByNumVal(_)
SortByNumVal(ks) ==
    IF ks = {} THEN <<>>
    ELSE LET m == CHOOSE k \in ks : \A o \in ks : NumVal(k) <= NumVal(o)
         IN  <<m>> \o SortByNumVal(ks \ {m})

InsertionKeys(o) == [i \in 1..Len(o) |-> o[i].k]

\* Object.keys(o)
ObjectKeys(o) ==
    LET ks == InsertionKeys(o)
    IN  SortByNumVal({ks[i] : i \in {j \in 1..Len(ks) : IsArrayIndex(ks[j])}})
            \o SelectSeq(ks, LAMBDA k : ~IsArrayIndex(k))

----------------------------------------------------------------------------
(* scrapeNBC: the extraction run inside page.evaluate.                     *)
(* A document is [hasDate, dateText, hasRate, rateText, hasTable, rows];   *)
(* rows are the tr elements of table.tbl-responsive, each the sequence of  *)
(* the texts of its td cells, rows[1] being the header row.                *)

\* cells[index].textContent.trim().replace(/\s+/g, ' ')
CleanCell(text) == ReplaceWsRuns(Trim(text))

\* header => header.textContent.trim()
HeaderLabels(headerRow) == [i \in 1..Len(headerRow) |-> Trim(headerRow[i])]

\* Mutant of RowAccepted: a row with spare cells is accepted.
RowAcceptedLoose(cells, headers) == Len(cells) >= Len(headers)

\* the test that decides whether a data row becomes a record
RowAccepted(cells, headers) == Len(cells) = Len(headers)

\* headers.forEach((header, index) => { currency[header] = ... })
RECURSIVE FillCurrency(_, _, _, _)
FillCurrency(currency, headers, cells, index) ==
    IF index > Len(headers) THEN currency
    ELSE FillCurrency(ObjSet(currency, headers[index], CleanCell(cells[index])),
                      headers, cells, index + 1)

RowWarning(i, cells, headers) ==
    [kind |-> "row", row |-> i, cells |-> Len(cells), headers |-> Len(headers)]

ElementWarning(kind) == [kind |-> kind, row |-> 0, cells |-> 0, headers |-> 0]

\* detailedCurrencyData.push(currency), for a row that passed the test
KeepRow(st, headers, cells) ==
    [st EXCEPT !.out = Append(@, FillCurrency(<<>>, headers, cells, 1))]

\* Mutant of SkipRow: the row is dropped without a warning.
SkipRowSilent(st, i, cells, headers) == st

\* console.warn(`Row ${i} ... Skipping.`), for a row that failed it
SkipRow(st, i, cells, headers) ==
    [st EXCEPT !.warns = Append(@, RowWarning(i, cells, headers))]

\* for (let i = 1; i < rows.length; i++) { ... }; st = [out, warns].
\* The JavaScript index i is the TLA+ index i + 1.
RECURSIVE RowLoop(_, _, _, _)
RowLoop(headers, rows, i, st) ==
    IF i + 1 > Len(rows) THEN st
    ELSE LET cells == rows[i + 1]
         IN  RowLoop(headers, rows, i + 1,
                     IF RowAccepted(cells, headers)
                     THEN KeepRow(st, headers, cells)
                     ELSE SkipRow(st, i, cells, headers))

\* Mutant of ExtractTable: a table without rows is read as an empty table.
ExtractTableGuarded(p) ==
    IF ~p.hasTable \/ p.rows = <<>> THEN [raised |-> FALSE, out |-> <<>>, warns |-> <<>>]
    ELSE LET st == RowLoop(HeaderLabels(p.rows[1]), p.rows, 1,
                           [out |-> <<>>, warns |-> <<>>])
         IN  [raised |-> FALSE, out |-> st.out, warns |-> st.warns]

\* The detailed table: raises when the table has no tr at all
\* (rows[0] is undefined and headerRow.querySelectorAll throws).
ExtractTable(p) ==
    IF ~p.hasTable THEN [raised |-> FALSE, out |-> <<>>, warns |-> <<>>]
    ELSE IF p.rows = <<>> THEN [raised |-> TRUE, out |-> <<>>, warns |-> <<>>]
    ELSE LET st == RowLoop(HeaderLabels(p.rows[1]), p.rows, 1,
                           [out |-> <<>>, warns |-> <<>>])
         IN  [raised |-> FALSE, out |-> st.out, warns |-> st.warns]

\* The whole callback: [raised, value, warns].
Evaluate(p) ==
    LET t == ExtractTable(p)
    IN  [raised |-> t.raised,
         value  |-> [exchange_date |-> IF p.hasDate THEN Trim(p.dateText) ELSE <<>>,
                     official_exchange_rate |-> IF p.hasRate THEN Trim(p.rateText) ELSE <<>>,
                     detailed_rates |-> t.out],
         warns  |-> (IF p.hasDate THEN <<>> ELSE <<ElementWarning("date")>>)
                    \o (IF p.hasRate THEN <<>> ELSE <<ElementWarning("rate")>>)
                    \o t.warns]

EmptySnapshot ==
    [exchange_date |-> <<>>, official_exchange_rate |-> <<>>, detailed_rates |-> <<>>]

NoPage ==
    [hasDate |-> FALSE, dateText |-> <<>>, hasRate |-> FALSE, rateText |-> <<>>,
     hasTable |-> FALSE, rows |-> <<>>]

----------------------------------------------------------------------------
(* Documents explored by the extraction specification.                     *)

TextAtoms == {"a", " ", "\n"}

Texts == UNION {[1..n -> TextAtoms] : n \in 0..MaxTextLen}

RowTag == <<"r1", "r2", "r3", "r4", "r5">>
ColTag == <<"c1", "c2", "c3", "c4", "c5", "c6", "c7">>

\* The text of cell c of data row r around the probe text t: odd columns
\* carry a marker naming the cell, even columns are the probe text alone.
CellAt(t, r, c) ==
    IF c % 2 = 1 THEN t \o <<RowTag[r], ColTag[c]>> \o t ELSE t

HeaderChoices ==
    { <<>>,
      << <<"Currency">> >>,
      << <<" ", "Currency", "\n">>, <<"Mid", " ", " ", "Rate">> >>,
      << <<"Rate">>, <<"Unit">>, <<" ", "Rate">> >>,
      << <<"Currency">>, <<"2">>, <<"1">> >>,
      << <<"Currency">>, <<"Unit">>, <<"Buying">>, <<"Selling">>, <<"Average">> >> }

\* Cell counts a data row may have under a header of n cells.
RowLengths(n) == {m \in {n + 1, n, n - 1} : m >= 0 /\ (m < n => n > 0)}

TableShapes(n) == UNION {[1..k -> RowLengths(n)] : k \in 0..MaxRows}

TableOf(h, t, shape) ==
    <<h>> \o [r \in 1..Len(shape) |-> [c \in 1..shape[r] |-> CellAt(t, r, c)]]

DatePlain == <<"2025", "-", "07", "-", "04">>

ExtractionPages ==
    { [hasDate |-> TRUE, dateText |-> DatePlain, hasRate |-> TRUE,
       rateText |-> <<"4015">>, hasTable |-> TRUE, rows |-> TableOf(h, t, shape)] :
         <<h, t, shape>> \in
            UNION { {<<hh, tt, ss>> : tt \in Texts, ss \in TableShapes(Len(hh))} :
                    hh \in HeaderChoices } }

----------------------------------------------------------------------------
(* The renderers.  A document is a sequence of atoms: each literal chunk   *)
(* of a template is one atom ("<tr>", "</td>", ...), an embedded JSON      *)
(* array contributes the structure atoms "json:[", "json:,", "json:]" and  *)
(* "json:q" (the quote that delimits a JSON string), and every             *)
(* interpolated value contributes its own atoms, unchanged.                *)

HasField(d, f) == f \in DOMAIN d

\* `${v}` of a template literal
Interpolate(v) == IF v = Undefined THEN <<"undefined">> ELSE v

RECURSIVE Flatten(_)
Flatten(ss) == IF ss = <<>> THEN <<>> ELSE Head(ss) \o Flatten(Tail(ss))

\* headers.map(header => `<th ...>${header}</th>`).join('')
TableHeadersHtml(headers) ==
    Flatten([i \in 1..Len(headers) |-> <<"<th>">> \o Interpolate(headers[i]) \o <<"</th>">>])

\* one pass of detailed_rates.forEach(item => { ... })
TableRowHtml(item, headers) ==
    <<"<tr>">>
        \o Flatten([i \in 1..Len(headers) |->
                      <<"<td>">> \o Interpolate(ObjGet(item, headers[i])) \o <<"</td>">>])
        \o <<"</tr>">>

PlaceholderText == "No detailed exchange rate data available."

\* Mutant of PlaceholderRows: an empty table body instead of the placeholder.
PlaceholderRowsNone == <<"<tbody>", "</tbody>">>

PlaceholderRows ==
    <<"<tbody>", "<tr>", "<td colspan=6>", PlaceholderText, "</td>", "</tr>", "</tbody>">>

\* the value of tableRowsHtml
TableRowsHtml(d) ==
    IF HasField(d, "detailed_rates") /\ Len(d.detailed_rates) > 0
    THEN LET headers == ObjectKeys(d.detailed_rates[1])
         IN  <<"<thead>", "<tr>">> \o TableHeadersHtml(headers)
                 \o <<"</tr>", "</thead>", "<tbody>">>
                 \o Flatten([r \in 1..Len(d.detailed_rates) |->
                               TableRowHtml(d.detailed_rates[r], headers)])
                 \o <<"</tbody>">>
    ELSE PlaceholderRows

FieldText(d, f) == IF HasField(d, f) THEN Interpolate(d[f]) ELSE <<"undefined">>

GenerateHtmlTable(d, title) ==
    <<"<!DOCTYPE html>", "<html>", "<head>", "<title>">> \o title
        \o <<"</title>", "</head>", "<body>", "<div class=container>", "<h1>">> \o title
        \o <<"</h1>", "<p>Exchange Rate Date: <span>">> \o FieldText(d, "exchange_date")
        \o <<"</span></p>", "<p>Official Exchange Rate: <span>">>
        \o FieldText(d, "official_exchange_rate")
        \o <<"</span></p>", "<h2>Detailed Exchange Rates</h2>", "<table>">>
        \o TableRowsHtml(d)
        \o <<"</table>", "</div>", "</body>", "</html>">>

\* parseFloat, without exponents: white space, a sign, digits, a point, digits.
\* The result is NaN or the number [neg, int, frac], int and frac being the
\* digits before and after the point.
NaN == [nan |-> TRUE, neg |-> FALSE, int |-> <<>>, frac |-> <<>>]

RECURSIVE DigitPrefix(_)
DigitPrefix(s) ==
    IF s = <<>> \/ ~IsDigit(Head(s)) THEN <<>> ELSE <<Head(s)>> \o DigitPrefix(Tail(s))

ParseFloat(v) ==
    IF v = Undefined THEN NaN
    ELSE LET s0   == TrimStart(v)
             sgn  == s0 # <<>> /\ Head(s0) \in {"+", "-"}
             s1   == IF sgn THEN Tail(s0) ELSE s0
             int  == DigitPrefix(s1)
             s2   == SubSeq(s1, Len(int) + 1, Len(s1))
             frac == IF s2 # <<>> /\ Head(s2) = "." THEN DigitPrefix(Tail(s2)) ELSE <<>>
         IN  IF int = <<>> /\ frac = <<>> THEN NaN
             ELSE [nan |-> FALSE, neg |-> sgn /\ Head(s0) = "-", int |-> int, frac |-> frac]

RECURSIVE StripLeadingZeros(_)
StripLeadingZeros(ds) ==
    IF ds # <<>> /\ Head(ds) = "0" THEN StripLeadingZeros(Tail(ds)) ELSE ds

RECURSIVE StripTrailingZeros(_)
StripTrailingZeros(ds) ==
    IF ds # <<>> /\ ds[Len(ds)] = "0"
    THEN StripTrailingZeros(SubSeq(ds, 1, Len(ds) - 1)) ELSE ds

\* JSON.stringify of a number: NaN becomes null.
JsonNumber(n) ==
    IF n.nan THEN <<"null">>
    ELSE LET int  == StripLeadingZeros(n.int)
             frac == StripTrailingZeros(n.frac)
         IN  (IF n.neg /\ (int # <<>> \/ frac # <<>>) THEN <<"-">> ELSE <<>>)
                 \o (IF int = <<>> THEN <<"0">> ELSE int)
                 \o (IF frac = <<>> THEN <<>> ELSE <<".">> \o frac)

\* JSON.stringify of a string: quotes, backslashes and line breaks escaped.
JsonEscape(c) ==
    IF c = "\"" THEN "\\\"" ELSE IF c = "\\" THEN "\\\\"
    ELSE IF c = "\n" THEN "\\n" ELSE IF c = "\t" THEN "\\t" ELSE c

\* JSON.stringify of an array element that is a string or undefined
JsonString(v) ==
    IF v = Undefined THEN <<"null">>
    ELSE <<"json:q">> \o [i \in 1..Len(v) |-> JsonEscape(v[i])] \o <<"json:q">>

RECURSIVE JsonJoin(_)
JsonJoin(elems) ==
    IF elems = <<>> THEN <<>>
    ELSE IF Len(elems) = 1 THEN elems[1]
    ELSE elems[1] \o <<"json:,">> \o JsonJoin(Tail(elems))

JsonArray(elems) == <<"json:[">> \o JsonJoin(elems) \o <<"json:]">>

\* detailedRates.map(item => item.Currency)
ChartLabels(detailedRates) ==
    [i \in 1..Len(detailedRates) |-> ObjGet(detailedRates[i], <<"Currency">>)]

\* Mutant of ChartData: records whose Average is not a number are filtered out.
ChartDataValidOnly(detailedRates) ==
    SelectSeq([i \in 1..Len(detailedRates) |->
                 ParseFloat(ObjGet(detailedRates[i], <<"Average">>))],
              LAMBDA n : ~n.nan)

\* detailedRates.map(item => parseFloat(item.Average))
ChartData(detailedRates) ==
    [i \in 1..Len(detailedRates) |-> ParseFloat(ObjGet(detailedRates[i], <<"Average">>))]

GenerateChartHtml(detailedRates, chartTitle) ==
    LET labels == ChartLabels(detailedRates)
        values == ChartData(detailedRates)
    IN  <<"<!DOCTYPE html>", "<html>", "<head>", "<title>">> \o chartTitle
            \o <<"</title>", "</head>", "<body>", "<div class=chart-container>",
                 "<canvas>", "</canvas>", "</div>", "<script>", "labels:">>
            \o JsonArray([i \in 1..Len(labels) |-> JsonString(labels[i])])
            \o <<"data:">>
            \o JsonArray([i \in 1..Len(values) |-> JsonNumber(values[i])])
            \o <<"text: '">> \o chartTitle
            \o <<"'", "</script>", "</body>", "</html>">>

\* `Exchange Rates for ${scrapedData.exchange_date}`
ChartTitle(d) == <<"Exchange Rates for ">> \o FieldText(d, "exchange_date")

TableTitle == <<"National Bank of Cambodia Exchange Rates">>
FilteredTitle == <<"Filtered NBC Exchange Rates">>
DailyTitle == <<"National Bank of Cambodia Daily Exchange Rates">>

----------------------------------------------------------------------------
(* The request pipeline.                                                   *)

EnvVars == {"NBC_WEBSITE", "NSSF_WEBSITE", "GDT_WEBSITE",
            "TELEGRAM_BOT_TOKEN", "TELEGRAM_CHAT_ID"}

\* Every variable set, or exactly one of them missing.
EnvChoices == {EnvVars} \cup {EnvVars \ {v} : v \in EnvVars}

NbcEndpoints == {"table", "filtered", "chart", "daily"}
Endpoints == NbcEndpoints \cup {"nssf", "gdt"}

DateParams == {<<>>, DatePlain}

GoodRow == << <<"Thai", " ", "Baht">>, <<" ", "1", "2", "4", "\n">> >>
OtherRow == << <<"US", " ", "Dollar">>, <<"N", "/", "A">> >>
ShortRow == << <<"Euro">> >>
RateHeader == << <<"Currency">>, <<"Average">> >>

PageWith(hasDate, hasTable, rows) ==
    [hasDate |-> hasDate, dateText |-> <<" ">> \o DatePlain, hasRate |-> TRUE,
     rateText |-> <<"4015">>, hasTable |-> hasTable, rows |-> rows]

\* Documents the NBC site may serve to a request.
PipelinePages ==
    { PageWith(TRUE, TRUE, <<RateHeader, OtherRow, ShortRow, GoodRow>>),
      PageWith(TRUE, TRUE, <<RateHeader>>),
      PageWith(TRUE, TRUE, <<>>),
      PageWith(TRUE, FALSE, <<>>),
      PageWith(FALSE, TRUE, <<RateHeader, GoodRow>>) }

AllDirs == {"./images", "/tmp/images", "./data_json"}

Step(op, ok) == [op |-> op, ok |-> ok]

Ops(l) == [i \in 1..Len(l) |-> l[i].op]

\* An awaited call at position `at`: it resolves and the handler moves on to
\* `next`, or it rejects, `thrown` is in flight and control passes to `handler`.
Await(at, op, next, handler, thrown) ==
    /\ pc = at
    /\ \E ok \in BOOLEAN :
          /\ log' = Append(log, Step(op, ok))
          /\ IF ok THEN pc' = next /\ exc' = exc
                   ELSE pc' = handler /\ exc' = thrown

\* Mutant of Closed: the finally block does not close the browser.
ClosedNever(b) == b

\* if (browser) { await browser.close() }.  The close is taken to resolve:
\* Puppeteer ends the browser process even when the protocol call fails.
Closed(b) == IF b = "open" THEN "closed" ELSE b

Init ==
    /\ env \in EnvChoices
    /\ dirs \in {{}, AllDirs}
    /\ endpoint = "none"
    /\ date = <<>>
    /\ pc = "idle"
    /\ exc = "none"
    /\ log = <<>>
    /\ scrapeBrowser = "none"
    /\ captureBrowser = "none"
    /\ page = NoPage
    /\ data = EmptySnapshot
    /\ filteredData = EmptySnapshot
    /\ scraped = "none"
    /\ warnings = <<>>
    /\ html = <<>>
    /\ container = "unset"
    /\ imagePath = "unset"
    /\ files = {}
    /\ responses = <<>>
    /\ telegram = "none"
    /\ unlinkState = "none"

\* app.get(...): a request arrives and its handler starts.
Receive ==
    /\ pc = "idle"
    /\ \E e \in Endpoints, d \in DateParams :
          /\ endpoint' = e
          /\ date' = IF e \in NbcEndpoints THEN d ELSE <<>>
          /\ pc' = IF e \in NbcEndpoints THEN "nbc_cfg"
                   ELSE IF e = "nssf" THEN "nssf_cfg" ELSE "gdt_cfg"
    /\ UNCHANGED <<env, exc, log, browserVars, scrapeVars, captureVars, fsVars, outVars>>

\* ---- scrapeNBC ----

\* if (!NBC_WEBSITE) throw ...: thrown before the try, so no finally runs.
NbcConfig ==
    /\ pc = "nbc_cfg"
    /\ IF "NBC_WEBSITE" \in env
       THEN pc' = "nbc_launch" /\ exc' = exc
       ELSE pc' = "ep_catch" /\ exc' = "config"
    /\ UNCHANGED <<reqVars, log, browserVars, scrapeVars, captureVars, fsVars, outVars>>

NbcLaunch ==
    /\ Await("nbc_launch", "launch", "nbc_newPage", "nbc_finally", "launch")
    /\ scrapeBrowser' = IF pc' = "nbc_newPage" THEN "open" ELSE scrapeBrowser
    /\ UNCHANGED <<reqVars, captureBrowser, scrapeVars, captureVars, fsVars, outVars>>

NbcNewPage ==
    /\ Await("nbc_newPage", "newPage", "nbc_goto", "nbc_finally", "newPage")
    /\ UNCHANGED <<reqVars, browserVars, scrapeVars, captureVars, fsVars, outVars>>

\* Mutant of AfterGoto: the date form is never filled in.
AfterGotoSkipForm == "nbc_evaluate"

\* The position after the first navigation: if (date) { ... } else { ... }
AfterGoto == IF date # <<>> THEN "nbc_focus" ELSE "nbc_evaluate"

\* page.goto(NBC_WEBSITE, ...): on success the browser shows some document.
NbcGoto ==
    /\ Await("nbc_goto", "goto", AfterGoto, "nbc_finally", "goto")
    /\ IF pc' = "nbc_finally" THEN page' = page ELSE page' \in PipelinePages
    /\ UNCHANGED <<reqVars, browserVars, data, filteredData, scraped, warnings,
                   captureVars, fsVars, outVars>>

NbcFocus ==
    /\ Await("nbc_focus", "focus", "nbc_clear", "nbc_finally", "focus")
    /\ UNCHANGED <<reqVars, browserVars, scrapeVars, captureVars, fsVars, outVars>>

\* Control+A, Backspace
NbcClear ==
    /\ Await("nbc_clear", "clear", "nbc_type", "nbc_finally", "clear")
    /\ UNCHANGED <<reqVars, browserVars, scrapeVars, captureVars, fsVars, outVars>>

NbcType ==
    /\ Await("nbc_type", "type", "nbc_click", "nbc_finally", "type")
    /\ UNCHANGED <<reqVars, browserVars, scrapeVars, captureVars, fsVars, outVars>>

NbcClick ==
    /\ Await("nbc_click", "click", "nbc_waitNav", "nbc_finally", "click")
    /\ UNCHANGED <<reqVars, browserVars, scrapeVars, captureVars, fsVars, outVars>>

\* page.waitForNavigation(...): the document of the submitted date is shown.
NbcWaitNav ==
    /\ Await("nbc_waitNav", "waitForNavigation", "nbc_evaluate", "nbc_finally",
             "waitForNavigation")
    /\ IF pc' = "nbc_finally" THEN page' = page ELSE page' \in PipelinePages
    /\ UNCHANGED <<reqVars, browserVars, data, filteredData, scraped, warnings,
                   captureVars, fsVars, outVars>>

\* page.evaluate(() => { ... }) and the return of its value
NbcEvaluate ==
    /\ pc = "nbc_evaluate"
    /\ \E ok \in BOOLEAN :
          LET r == Evaluate(page)
              done == ok /\ ~r.raised
          IN  /\ log' = Append(log, Step("evaluate", done))
              /\ pc' = "nbc_finally"
              /\ exc' = IF ~ok THEN "evaluate" ELSE IF r.raised THEN "TypeError" ELSE exc
              /\ data' = IF done THEN r.value ELSE data
              /\ warnings' = IF ok THEN r.warns ELSE warnings
    /\ UNCHANGED <<reqVars, browserVars, page, filteredData, scraped,
                   captureVars, fsVars, outVars>>

\* Mutant of NbcExit: the catch swallows the error and the scrape returns.
NbcExitSwallow == "ep_scraped"

\* Where scrapeNBC's finally leaves: the return, or the rethrown error.
NbcExit == IF exc = "none" THEN "ep_scraped" ELSE "ep_catch"

\* catch (error) { throw error } finally { if (browser) await browser.close() }
NbcFinally ==
    /\ pc = "nbc_finally"
    /\ scrapeBrowser' = Closed(scrapeBrowser)
    /\ log' = IF scrapeBrowser = "open" THEN Append(log, Step("close", TRUE)) ELSE log
    /\ pc' = NbcExit
    /\ UNCHANGED <<reqVars, exc, captureBrowser, scrapeVars, captureVars, fsVars, outVars>>

\* ---- scrapeNSSF ----

NssfConfig ==
    /\ pc = "nssf_cfg"
    /\ IF "NSSF_WEBSITE" \in env
       THEN pc' = "nssf_launch" /\ exc' = exc
       ELSE pc' = "ep_catch" /\ exc' = "config"
    /\ UNCHANGED <<reqVars, log, browserVars, scrapeVars, captureVars, fsVars, outVars>>

NssfLaunch ==
    /\ Await("nssf_launch", "launch", "nssf_newPage", "nssf_finally", "launch")
    /\ scrapeBrowser' = IF pc' = "nssf_newPage" THEN "open" ELSE scrapeBrowser
    /\ UNCHANGED <<reqVars, captureBrowser, scrapeVars, captureVars, fsVars, outVars>>

NssfNewPage ==
    /\ Await("nssf_newPage", "newPage", "nssf_goto", "nssf_finally", "newPage")
    /\ UNCHANGED <<reqVars, browserVars, scrapeVars, captureVars, fsVars, outVars>>

NssfGoto ==
    /\ Await("nssf_goto", "goto", "nssf_evaluate", "nssf_finally", "goto")
    /\ UNCHANGED <<reqVars, browserVars, scrapeVars, captureVars, fsVars, outVars>>

\* page.evaluate: the data, or null when the NSSF text element is missing
NssfEvaluate ==
    /\ Await("nssf_evaluate", "evaluate", "nssf_finally", "nssf_finally", "evaluate")
    /\ IF exc' = "none" THEN scraped' \in {"object", "null"} ELSE scraped' = scraped
    /\ UNCHANGED <<reqVars, browserVars, page, data, filteredData, warnings,
                   captureVars, fsVars, outVars>>

NssfFinally ==
    /\ pc = "nssf_finally"
    /\ scrapeBrowser' = Closed(scrapeBrowser)
    /\ log' = IF scrapeBrowser = "open" THEN Append(log, Step("close", TRUE)) ELSE log
    /\ pc' = IF exc = "none" THEN "ep_json" ELSE "ep_catch"
    /\ UNCHANGED <<reqVars, exc, captureBrowser, scrapeVars, captureVars, fsVars, outVars>>

\* ---- scrapeExchangeRate ----

GdtConfig ==
    /\ pc = "gdt_cfg"
    /\ IF "GDT_WEBSITE" \in env
       THEN pc' = "gdt_launch" /\ exc' = exc
       ELSE pc' = "ep_catch" /\ exc' = "config"
    /\ UNCHANGED <<reqVars, log, browserVars, scrapeVars, captureVars, fsVars, outVars>>

GdtLaunch ==
    /\ Await("gdt_launch", "launch", "gdt_newPage", "gdt_finally", "launch")
    /\ scrapeBrowser' = IF pc' = "gdt_newPage" THEN "open" ELSE scrapeBrowser
    /\ UNCHANGED <<reqVars, captureBrowser, scrapeVars, captureVars, fsVars, outVars>>

GdtNewPage ==
    /\ Await("gdt_newPage", "newPage", "gdt_goto", "gdt_finally", "newPage")
    /\ UNCHANGED <<reqVars, browserVars, scrapeVars, captureVars, fsVars, outVars>>

GdtGoto ==
    /\ Await("gdt_goto", "goto", "gdt_evaluate", "gdt_finally", "goto")
    /\ UNCHANGED <<reqVars, browserVars, scrapeVars, captureVars, fsVars, outVars>>

\* page.evaluate: always an object, its fields empty when elements are missing
GdtEvaluate ==
    /\ Await("gdt_evaluate", "evaluate", "gdt_finally", "gdt_finally", "evaluate")
    /\ IF exc' = "none" THEN scraped' \in {"object", "empty"} ELSE scraped' = scraped
    /\ UNCHANGED <<reqVars, browserVars, page, data, filteredData, warnings,
                   captureVars, fsVars, outVars>>

GdtFinally ==
    /\ pc = "gdt_finally"
    /\ scrapeBrowser' = Closed(scrapeBrowser)
    /\ log' = IF scrapeBrowser = "open" THEN Append(log, Step("close", TRUE)) ELSE log
    /\ pc' = IF exc = "none" THEN "ep_json" ELSE "ep_catch"
    /\ UNCHANGED <<reqVars, exc, captureBrowser, scrapeVars, captureVars, fsVars, outVars>>


\* ---- the handlers, after the scrape ----

Response(status, type, body) == [status |-> status, type |-> type, body |-> body]

CurrenciesToFilter ==
    { <<"China", " ", "Yuan">>, <<"European", " ", "Euro">>,
      <<"Australian", " ", "Dollar">>, <<"Hong", " ", "Kong", " ", "Dollar">>,
      <<"Vietnamese", " ", "Dong">>, <<"Thai", " ", "Baht">>,
      <<"Singapore", " ", "Dollar">>, <<"Malaysian", " ", "Ringgit">>,
      <<"Myanmar", " ", "Kyat">>, <<"Korean", " ", "Won">>, <<"Japanese", " ", "Yen">> }

\* Mutant of FilterRates: the kept records come out in reverse order.
FilterRatesReversed(rates) ==
    LET kept == SelectSeq(rates, LAMBDA item : ObjGet(item, <<"Currency">>) \in CurrenciesToFilter)
    IN  [k \in 1..Len(kept) |-> kept[Len(kept) + 1 - k]]


\* fullData.detailed_rates.filter(item => currenciesToFilter.includes(item.Currency))
FilterRates(rates) ==
    SelectSeq(rates, LAMBDA item : ObjGet(item, <<"Currency">>) \in CurrenciesToFilter)

FilteredSnapshot(fullData) ==
    [exchange_date |-> fullData.exchange_date,
     official_exchange_rate |-> fullData.official_exchange_rate,
     detailed_rates |-> IF HasField(fullData, "detailed_rates")
                        THEN FilterRates(fullData.detailed_rates) ELSE <<>>]

\* /nbc-exr-rate and /api/daily-report: generateHtmlTable(data, title)
EpRenderTable ==
    /\ pc = "ep_scraped"
    /\ endpoint \in {"table", "daily"}
    /\ html' = GenerateHtmlTable(data, IF endpoint = "table" THEN TableTitle ELSE DailyTitle)
    /\ log' = Append(log, Step("render", TRUE))
    /\ pc' = IF endpoint = "table" THEN "json_save" ELSE "img_mkdir"
    /\ UNCHANGED <<reqVars, exc, browserVars, scrapeVars, container, imagePath,
                   fsVars, outVars>>

\* Mutant of EpFilterRender: the filter writes its result back into the
\* scraped snapshot.
EpFilterRenderInPlace ==
    /\ pc = "ep_scraped"
    /\ endpoint = "filtered"
    /\ filteredData' = FilteredSnapshot(data)
    /\ data' = filteredData'
    /\ html' = GenerateHtmlTable(filteredData', FilteredTitle)
    /\ log' = Append(log, Step("render", TRUE))
    /\ pc' = "img_mkdir"
    /\ UNCHANGED <<reqVars, exc, browserVars, page, scraped, warnings, container,
                   imagePath, fsVars, outVars>>

\* /nbc-filtered-exr-table: the filter, then generateHtmlTable(filteredData, title)
EpFilterRender ==
    /\ pc = "ep_scraped"
    /\ endpoint = "filtered"
    /\ filteredData' = FilteredSnapshot(data)
    /\ html' = GenerateHtmlTable(filteredData', FilteredTitle)
    /\ log' = Append(log, Step("render", TRUE))
    /\ pc' = "img_mkdir"
    /\ UNCHANGED <<reqVars, exc, browserVars, page, data, scraped, warnings, container,
                   imagePath, fsVars, outVars>>

\* /nbc-exr-chart: the chart document, or 404 when there are no detailed rows
EpChart ==
    /\ pc = "ep_scraped"
    /\ endpoint = "chart"
    /\ IF HasField(data, "detailed_rates") /\ Len(data.detailed_rates) > 0
       THEN /\ html' = GenerateChartHtml(data.detailed_rates, ChartTitle(data))
            /\ log' = Append(log, Step("render", TRUE))
            /\ pc' = "chart_launch"
            /\ responses' = responses
       ELSE /\ responses' = Append(responses, Response(404, "json", "no_data"))
            /\ pc' = "done"
            /\ UNCHANGED <<html, log>>
    /\ UNCHANGED <<reqVars, exc, browserVars, scrapeVars, container, imagePath, fsVars,
                   telegram, unlinkState>>

JsonFile == [kind |-> "json", dir |-> "./data_json", prefix |-> "nbc_exchange_rate"]


\* Mutant of UsableDate: the guard at the top of saveJsonData is missing.
UsableDateUnchecked(d) == TRUE

\* the negation of (!data || !data.exchange_date); a null snapshot has no field
UsableDate(d) == HasField(d, "exchange_date") /\ d.exchange_date # <<>>

\* saveJsonData(data): no await inside, one synchronous run.  mkdirSync is
\* outside the try and its error leaves the function; a failed write is caught.
SaveJsonData ==
    /\ pc = "json_save"
    /\ IF ~UsableDate(data)
       THEN /\ pc' = "img_mkdir"
            /\ UNCHANGED <<exc, log, files, dirs>>
       ELSE \E mk \in BOOLEAN, wr \in BOOLEAN :
              IF "./data_json" \notin dirs /\ ~mk
              THEN /\ exc' = "mkdir"
                   /\ pc' = "ep_catch"
                   /\ log' = Append(log, Step("mkdirData", FALSE))
                   /\ UNCHANGED <<files, dirs>>
              ELSE /\ dirs' = dirs \cup {"./data_json"}
                   /\ files' = IF wr THEN files \cup {JsonFile} ELSE files
                   /\ log' = Append(log, Step("writeJson", wr))
                   /\ pc' = "img_mkdir"
                   /\ exc' = exc
    /\ UNCHANGED <<reqVars, browserVars, scrapeVars, captureVars, outVars>>

\* ---- saveHtmlTableAsImage ----

ImageDir == IF endpoint = "daily" THEN "/tmp/images" ELSE "./images"

FilenamePrefix ==
    IF endpoint = "daily" THEN "nbc_daily_report_table"
    ELSE IF endpoint = "filtered" THEN "nbc_filtered_exchange_rate_table"
    ELSE "nbc_exchange_rate_table"

ImageFile == [kind |-> "image", dir |-> ImageDir, prefix |-> FilenamePrefix]

\* A call of the capture that rejects: the catch returns null.
CaptureAwait(at, op, next) ==
    /\ Await(at, op, next, "img_finally", exc)
    /\ imagePath' = IF pc' = next THEN imagePath ELSE "null"

\* if (!fs.existsSync(imageDir)) { fs.mkdirSync(imageDir, { recursive: true }) }
ImgMkdir ==
    /\ pc = "img_mkdir"
    /\ IF ImageDir \in dirs
       THEN /\ pc' = "img_launch"
            /\ UNCHANGED <<log, dirs, imagePath>>
       ELSE \E ok \in BOOLEAN :
              /\ log' = Append(log, Step("mkdirImages", ok))
              /\ dirs' = IF ok THEN dirs \cup {ImageDir} ELSE dirs
              /\ pc' = IF ok THEN "img_launch" ELSE "img_finally"
              /\ imagePath' = IF ok THEN imagePath ELSE "null"
    /\ UNCHANGED <<reqVars, exc, browserVars, scrapeVars, html, container, files, outVars>>

ImgLaunch ==
    /\ CaptureAwait("img_launch", "captureLaunch", "img_newPage")
    /\ captureBrowser' = IF pc' = "img_newPage" THEN "open" ELSE captureBrowser
    /\ UNCHANGED <<reqVars, scrapeBrowser, scrapeVars, html, container, fsVars, outVars>>

ImgNewPage ==
    /\ CaptureAwait("img_newPage", "captureNewPage", "img_setContent")
    /\ UNCHANGED <<reqVars, browserVars, scrapeVars, html, container, fsVars, outVars>>

ImgSetContent ==
    /\ CaptureAwait("img_setContent", "setContent", "img_measure")
    /\ UNCHANGED <<reqVars, browserVars, scrapeVars, html, container, fsVars, outVars>>

\* page.evaluate(() => document.body.scrollHeight)
ImgMeasure ==
    /\ CaptureAwait("img_measure", "measure", "img_setViewport")
    /\ UNCHANGED <<reqVars, browserVars, scrapeVars, html, container, fsVars, outVars>>

ImgSetViewport ==
    /\ CaptureAwait("img_setViewport", "setViewport", "img_find")
    /\ UNCHANGED <<reqVars, browserVars, scrapeVars, html, container, fsVars, outVars>>

\* Mutant of ContainerNext: the screenshot is taken although page.$ found nothing.
ContainerNextShoots(r) == IF r = "error" THEN "img_finally" ELSE "img_screenshot"

\* if (container) { ...screenshot... } else { ...return null }; a rejected
\* page.$ goes to the catch, which returns null
ContainerNext(r) == IF r = "found" THEN "img_screenshot" ELSE "img_finally"

\* page.$('.container'): an element, null, or a rejection
ImgFind ==
    /\ pc = "img_find"
    /\ \E r \in {"found", "missing", "error"} :
          /\ log' = Append(log, Step("findContainer", r # "error"))
          /\ container' = IF r = "error" THEN container ELSE r
          /\ pc' = ContainerNext(r)
          /\ imagePath' = IF r = "found" THEN imagePath ELSE "null"
    /\ UNCHANGED <<reqVars, exc, browserVars, scrapeVars, html, fsVars, outVars>>

\* container.screenshot({ path: imagePath }); return imagePath
ImgScreenshot ==
    /\ pc = "img_screenshot"
    /\ \E ok \in BOOLEAN :
          /\ log' = Append(log, Step("screenshot", ok))
          /\ files' = IF ok THEN files \cup {ImageFile} ELSE files
          /\ imagePath' = IF ok THEN "path" ELSE "null"
    /\ pc' = "img_finally"
    /\ UNCHANGED <<reqVars, exc, browserVars, scrapeVars, html, container, dirs, outVars>>

\* Where the handler continues with the value saveHtmlTableAsImage returned.
AfterCapture == IF endpoint = "daily" THEN "daily_branch" ELSE "ep_send_html"

\* finally { if (browser) { await browser.close() } }
ImgFinally ==
    /\ pc = "img_finally"
    /\ captureBrowser' = Closed(captureBrowser)
    /\ log' = IF captureBrowser = "open" THEN Append(log, Step("captureClose", TRUE)) ELSE log
    /\ pc' = AfterCapture
    /\ UNCHANGED <<reqVars, exc, scrapeBrowser, scrapeVars, captureVars, fsVars, outVars>>


\* ---- /nbc-exr-rate, /nbc-filtered-exr-table: the response ----

\* res.setHeader('Content-Type', 'text/html'); res.send(htmlTable)
EpSendHtml ==
    /\ pc = "ep_send_html"
    /\ responses' = Append(responses, Response(200, "html", "table"))
    /\ pc' = "done"
    /\ UNCHANGED <<reqVars, exc, log, browserVars, scrapeVars, captureVars, fsVars,
                   telegram, unlinkState>>

\* ---- /api/daily-report ----

\* Mutant of HasImage: the report goes on without looking at the capture's result.
HasImageUnchecked == TRUE

\* if (imagePath)
HasImage == imagePath = "path"

\* Mutant of DailyBranch: the temporary file is removed before the send.
DailyBranchUnlinkFirst ==
    /\ pc = "daily_branch"
    /\ IF HasImage
       THEN pc' = "daily_unlink" /\ responses' = responses
       ELSE pc' = "done" /\ responses' = Append(responses, Response(500, "json", "no_image"))
    /\ UNCHANGED <<reqVars, exc, log, browserVars, scrapeVars, captureVars, fsVars,
                   telegram, unlinkState>>

\* if (imagePath) { ... } else { res.status(500).json(...) }
DailyBranch ==
    /\ pc = "daily_branch"
    /\ IF HasImage
       THEN pc' = "tg_cfg" /\ responses' = responses
       ELSE pc' = "done" /\ responses' = Append(responses, Response(500, "json", "no_image"))
    /\ UNCHANGED <<reqVars, exc, log, browserVars, scrapeVars, captureVars, fsVars,
                   telegram, unlinkState>>


\* Mutant of TgConfig: a skipped send goes straight to the response, so that
\* the clean-up only follows a send that reached the network.
TgConfigNoCleanup ==
    /\ pc = "tg_cfg"
    /\ IF {"TELEGRAM_BOT_TOKEN", "TELEGRAM_CHAT_ID"} \subseteq env
       THEN IF ImageFile \in files
            THEN pc' = "tg_fetch" /\ telegram' = telegram
            ELSE pc' = "daily_respond" /\ telegram' = "no_file"
       ELSE pc' = "daily_respond" /\ telegram' = "skipped"
    /\ UNCHANGED <<reqVars, exc, log, browserVars, scrapeVars, captureVars, fsVars,
                   responses, unlinkState>>

\* sendImageToTelegram: the two early returns
TgConfig ==
    /\ pc = "tg_cfg"
    /\ IF {"TELEGRAM_BOT_TOKEN", "TELEGRAM_CHAT_ID"} \subseteq env
       THEN IF ImageFile \in files
            THEN pc' = "tg_fetch" /\ telegram' = telegram
            ELSE pc' = "daily_unlink" /\ telegram' = "no_file"
       ELSE pc' = "daily_unlink" /\ telegram' = "skipped"
    /\ UNCHANGED <<reqVars, exc, log, browserVars, scrapeVars, captureVars, fsVars,
                   responses, unlinkState>>

\* await fetch(telegramApiUrl, ...): a rejection is caught and logged
TgFetch ==
    /\ Await("tg_fetch", "fetch", "tg_json", "daily_unlink", exc)
    /\ telegram' = IF pc' = "tg_json" THEN telegram ELSE "error"
    /\ UNCHANGED <<reqVars, browserVars, scrapeVars, captureVars, fsVars,
                   responses, unlinkState>>

\* await response.json(); if (result.ok) ... else ...
TgJson ==
    /\ Await("tg_json", "responseJson", "daily_unlink", "daily_unlink", exc)
    /\ IF log'[Len(log')].ok THEN telegram' \in {"sent", "rejected"} ELSE telegram' = "error"
    /\ UNCHANGED <<reqVars, browserVars, scrapeVars, captureVars, fsVars,
                   responses, unlinkState>>

\* fs.unlink(imagePath, callback): started, not awaited
DailyUnlink ==
    /\ pc = "daily_unlink"
    /\ unlinkState' = "pending"
    /\ log' = Append(log, Step("unlink", TRUE))
    /\ pc' = "daily_respond"
    /\ UNCHANGED <<reqVars, exc, browserVars, scrapeVars, captureVars, fsVars,
                   responses, telegram>>

\* res.status(200).json({ message: ..., date: ..., imagePath: ... })
DailyRespond ==
    /\ pc = "daily_respond"
    /\ responses' = Append(responses, Response(200, "json", "report_sent"))
    /\ pc' = "done"
    /\ UNCHANGED <<reqVars, exc, log, browserVars, scrapeVars, captureVars, fsVars,
                   telegram, unlinkState>>

\* The unlink completes, at any later moment, and its callback logs the result.
UnlinkDone ==
    /\ unlinkState = "pending"
    /\ \E ok \in BOOLEAN :
          /\ unlinkState' = IF ok THEN "deleted" ELSE "failed"
          /\ files' = IF ok THEN files \ {ImageFile} ELSE files
    /\ UNCHANGED <<reqVars, ctlVars, browserVars, scrapeVars, captureVars, dirs,
                   responses, telegram>>

\* ---- /nbc-exr-chart: the capture inside the handler ----

ChartLaunch ==
    /\ Await("chart_launch", "captureLaunch", "chart_newPage", "chart_catch", exc)
    /\ captureBrowser' = IF pc' = "chart_newPage" THEN "open" ELSE captureBrowser
    /\ UNCHANGED <<reqVars, scrapeBrowser, scrapeVars, captureVars, fsVars, outVars>>

ChartNewPage ==
    /\ Await("chart_newPage", "captureNewPage", "chart_setViewport", "chart_catch", exc)
    /\ UNCHANGED <<reqVars, browserVars, scrapeVars, captureVars, fsVars, outVars>>

ChartSetViewport ==
    /\ Await("chart_setViewport", "setViewport", "chart_setContent", "chart_catch", exc)
    /\ UNCHANGED <<reqVars, browserVars, scrapeVars, captureVars, fsVars, outVars>>

\* page.setContent(htmlContent, ...), then the one-second wait
ChartSetContent ==
    /\ Await("chart_setContent", "setContent", "chart_find", "chart_catch", exc)
    /\ UNCHANGED <<reqVars, browserVars, scrapeVars, captureVars, fsVars, outVars>>

\* page.$('.chart-container'): an element, null (500 is sent), or a rejection
ChartFind ==
    /\ pc = "chart_find"
    /\ \E r \in {"found", "missing", "error"} :
          /\ log' = Append(log, Step("findContainer", r # "error"))
          /\ container' = IF r = "error" THEN container ELSE r
          /\ pc' = IF r = "found" THEN "chart_screenshot"
                   ELSE IF r = "missing" THEN "chart_finally" ELSE "chart_catch"
          /\ responses' = IF r = "missing"
                          THEN Append(responses, Response(500, "json", "no_container"))
                          ELSE responses
    /\ UNCHANGED <<reqVars, exc, browserVars, scrapeVars, html, imagePath, fsVars,
                   telegram, unlinkState>>


\* Mutant of ChartScreenshot: the screenshot is taken with a path, as in the
\* table capture, and leaves an image file behind.
ChartScreenshotToFile ==
    /\ Await("chart_screenshot", "screenshot", "chart_finally", "chart_catch", exc)
    /\ responses' = IF pc' = "chart_finally"
                    THEN Append(responses, Response(200, "png", "chart"))
                    ELSE responses
    /\ files' = IF pc' = "chart_finally" THEN files \cup {ImageFile} ELSE files
    /\ UNCHANGED <<reqVars, browserVars, scrapeVars, captureVars, dirs,
                   telegram, unlinkState>>

\* chartContainer.screenshot({ encoding: 'binary' }); res.send(imageBuffer)
ChartScreenshot ==
    /\ Await("chart_screenshot", "screenshot", "chart_finally", "chart_catch", exc)
    /\ responses' = IF pc' = "chart_finally"
                    THEN Append(responses, Response(200, "png", "chart"))
                    ELSE responses
    /\ UNCHANGED <<reqVars, browserVars, scrapeVars, captureVars, fsVars,
                   telegram, unlinkState>>

\* catch (error) { res.status(500).json(...) }
ChartCatch ==
    /\ pc = "chart_catch"
    /\ responses' = Append(responses, Response(500, "json", "chart_failed"))
    /\ pc' = "chart_finally"
    /\ UNCHANGED <<reqVars, exc, log, browserVars, scrapeVars, captureVars, fsVars,
                   telegram, unlinkState>>

\* finally { if (browser) { await browser.close() } }
ChartFinally ==
    /\ pc = "chart_finally"
    /\ captureBrowser' = Closed(captureBrowser)
    /\ log' = IF captureBrowser = "open" THEN Append(log, Step("captureClose", TRUE)) ELSE log
    /\ pc' = "done"
    /\ UNCHANGED <<reqVars, exc, scrapeBrowser, scrapeVars, captureVars, fsVars, outVars>>

\* ---- /nssf-exr-rate, /exr-rate: res.json(data) ----

EpJson ==
    /\ pc = "ep_json"
    /\ responses' = Append(responses, Response(200, "json", scraped))
    /\ pc' = "done"
    /\ UNCHANGED <<reqVars, exc, log, browserVars, scrapeVars, captureVars, fsVars,
                   telegram, unlinkState>>

\* ---- the catch of every handler: res.status(500)... ----

EpCatch ==
    /\ pc = "ep_catch"
    /\ responses' = Append(responses,
                           Response(500, IF endpoint \in {"table", "filtered"}
                                         THEN "text" ELSE "json", "error"))
    /\ exc' = "none"
    /\ pc' = "done"
    /\ UNCHANGED <<reqVars, log, browserVars, scrapeVars, captureVars, fsVars,
                   telegram, unlinkState>>

Next ==
    \/ Receive
    \/ NbcConfig \/ NbcLaunch \/ NbcNewPage \/ NbcGoto \/ NbcFocus \/ NbcClear
    \/ NbcType \/ NbcClick \/ NbcWaitNav \/ NbcEvaluate \/ NbcFinally
    \/ NssfConfig \/ NssfLaunch \/ NssfNewPage \/ NssfGoto \/ NssfEvaluate \/ NssfFinally
    \/ GdtConfig \/ GdtLaunch \/ GdtNewPage \/ GdtGoto \/ GdtEvaluate \/ GdtFinally
    \/ EpRenderTable \/ EpFilterRender \/ EpChart \/ SaveJsonData
    \/ ImgMkdir \/ ImgLaunch \/ ImgNewPage \/ ImgSetContent \/ ImgMeasure
    \/ ImgSetViewport \/ ImgFind \/ ImgScreenshot \/ ImgFinally
    \/ EpSendHtml \/ DailyBranch \/ TgConfig \/ TgFetch \/ TgJson
    \/ DailyUnlink \/ DailyRespond \/ UnlinkDone
    \/ ChartLaunch \/ ChartNewPage \/ ChartSetViewport \/ ChartSetContent
    \/ ChartFind \/ ChartScreenshot \/ ChartCatch \/ ChartFinally
    \/ EpJson \/ EpCatch

Spec == Init /\ [][Next]_vars

\* The event loop runs every continuation that is ready, and every awaited
\* call settles (the navigations carry timeouts, the others end with their
\* connection): some step is taken as long as one is enabled.
SpecLive == Init /\ [][Next]_vars /\ WF_vars(Next)


----------------------------------------------------------------------------
(* The extraction alone: scrapeNBC has launched, opened its page and       *)
(* navigated; the document shown is any of ExtractionPages.                *)

InitExtract ==
    /\ env = EnvVars
    /\ dirs = AllDirs
    /\ endpoint = "table"
    /\ date = <<>>
    /\ pc = "nbc_evaluate"
    /\ exc = "none"
    /\ log = <<Step("launch", TRUE), Step("newPage", TRUE), Step("goto", TRUE)>>
    /\ scrapeBrowser = "open"
    /\ captureBrowser = "none"
    /\ page \in ExtractionPages
    /\ data = EmptySnapshot
    /\ filteredData = EmptySnapshot
    /\ scraped = "none"
    /\ warnings = <<>>
    /\ html = <<>>
    /\ container = "unset"
    /\ imagePath = "unset"
    /\ files = {}
    /\ responses = <<>>
    /\ telegram = "none"
    /\ unlinkState = "none"

NextExtract == NbcEvaluate \/ NbcFinally

SpecExtract == InitExtract /\ [][NextExtract]_vars

----------------------------------------------------------------------------
(* The renderers alone, applied to any of RenderSnapshots.                 *)

Obj2(k1, v1, k2, v2) == <<[k |-> k1, v |-> v1], [k |-> k2, v |-> v2]>>
Obj1(k1, v1) == <<[k |-> k1, v |-> v1]>>

RecordChoices ==
    { Obj2(<<"Currency">>, <<"Thai", " ", "Baht">>, <<"Average">>, <<"1", "2", "4">>),
      Obj2(<<"Currency">>, <<"US", " ", "Dollar">>, <<"Average">>, <<"N", "/", "A">>),
      Obj2(<<"Currency">>, <<"<", "script", ">">>,
           <<"Average">>, <<"4", ",", "1", "0", "0", ".", "5", "0">>),
      Obj2(<<"Currency">>, <<"a", "\"", "b">>, <<"Average">>, <<" ", "-", "0", ".", "5", "0">>),
      Obj2(<<"Average">>, <<".", "5">>, <<"Currency">>, <<"Euro">>),
      Obj1(<<"Currency">>, <<"Yen">>),
      Obj2(<<"Currency">>, <<"Won">>, <<"Average">>, <<>>),
      Obj2(<<"Currency">>, <<"Kip">>, <<"Average">>, <<"1", "</td>", "<td>", "2">>) }

RecordLists == UNION {[1..n -> RecordChoices] : n \in 0..MaxRecords}

DateChoices == {<<>>, DatePlain, <<"<", "b", ">">>, <<"it", "'", "s">>}

RateChoices == {<<"4015">>, <<"R", "&", "D">>}

RenderSnapshots ==
    { [exchange_date |-> d, official_exchange_rate |-> r, detailed_rates |-> l] :
         d \in DateChoices, r \in RateChoices, l \in RecordLists }
    \cup { [exchange_date |-> d, official_exchange_rate |-> r] :
              d \in DateChoices, r \in RateChoices }

InitRender ==
    /\ env = EnvVars
    /\ dirs = AllDirs
    /\ endpoint = "none"
    /\ date = <<>>
    /\ pc = "render_input"
    /\ exc = "none"
    /\ log = <<>>
    /\ scrapeBrowser = "none"
    /\ captureBrowser = "none"
    /\ page = NoPage
    /\ data \in RenderSnapshots
    /\ filteredData = EmptySnapshot
    /\ scraped = "none"
    /\ warnings = <<>>
    /\ html = <<>>
    /\ container = "unset"
    /\ imagePath = "unset"
    /\ files = {}
    /\ responses = <<>>
    /\ telegram = "none"
    /\ unlinkState = "none"

\* generateHtmlTable(data, title)
CallGenerateHtmlTable ==
    /\ pc = "render_input"
    /\ html' = GenerateHtmlTable(data, TableTitle)
    /\ pc' = "table_rendered"
    /\ UNCHANGED <<reqVars, exc, log, browserVars, scrapeVars, container, imagePath,
                   fsVars, outVars>>

\* generateChartHtml(detailedRates, chartTitle), detailedRates being an array
CallGenerateChartHtml ==
    /\ pc = "render_input"
    /\ HasField(data, "detailed_rates")
    /\ html' = GenerateChartHtml(data.detailed_rates, ChartTitle(data))
    /\ pc' = "chart_rendered"
    /\ UNCHANGED <<reqVars, exc, log, browserVars, scrapeVars, container, imagePath,
                   fsVars, outVars>>

NextRender == CallGenerateHtmlTable \/ CallGenerateChartHtml

SpecRender == InitRender /\ [][NextRender]_vars


----------------------------------------------------------------------------
(* Properties of the pipeline.                                             *)

NbcPcs == {"nbc_cfg", "nbc_launch", "nbc_newPage", "nbc_goto", "nbc_focus", "nbc_clear",
           "nbc_type", "nbc_click", "nbc_waitNav", "nbc_evaluate", "nbc_finally"}
NssfPcs == {"nssf_cfg", "nssf_launch", "nssf_newPage", "nssf_goto", "nssf_evaluate",
            "nssf_finally"}
GdtPcs == {"gdt_cfg", "gdt_launch", "gdt_newPage", "gdt_goto", "gdt_evaluate",
           "gdt_finally"}
ImgPcs == {"img_mkdir", "img_launch", "img_newPage", "img_setContent", "img_measure",
           "img_setViewport", "img_find", "img_screenshot", "img_finally"}
ChartPcs == {"chart_launch", "chart_newPage", "chart_setViewport", "chart_setContent",
             "chart_find", "chart_screenshot", "chart_catch", "chart_finally"}

Failed(op) == \E i \in 1..Len(log) : log[i] = Step(op, FALSE)
Tried(op) == \E i \in 1..Len(log) : log[i].op = op
CountOp(op) == Cardinality({i \in 1..Len(log) : log[i].op = op})

\* C1: a browser that scrapeNBC, scrapeNSSF, scrapeExchangeRate or
\* saveHtmlTableAsImage launched is closed by the time the function has returned
\* or thrown, whatever step failed; no finished request leaves a browser open.
C1_BrowsersReleased ==
    /\ scrapeBrowser = "open" => pc \in NbcPcs \cup NssfPcs \cup GdtPcs
    /\ captureBrowser = "open" => pc \in ImgPcs \cup ChartPcs
    /\ pc = "done" => scrapeBrowser # "open" /\ captureBrowser # "open"

\* scrapeNBC has thrown out of the extraction, after launching, and its browser
\* is closed when the handler's catch is reached.
C1_Witness ==
    /\ pc = "ep_catch"
    /\ exc = "TypeError"
    /\ Tried("launch")
    /\ scrapeBrowser = "closed"

NavigationFailed == Failed("goto") \/ Failed("waitForNavigation")

StepsAfterScrape ==
    {"render", "mkdirData", "writeJson", "mkdirImages", "captureLaunch", "captureNewPage",
     "setContent", "measure", "setViewport", "findContainer", "screenshot",
     "captureClose", "fetch", "responseJson", "unlink"}

\* C2: when the first navigation or the navigation after the form submit fails
\* in scrapeNBC, neither navigation is attempted again, nothing is extracted,
\* rendered, captured, written or sent, and the only response is a 500.
C2_NavigationFailureAborts ==
    (endpoint \in NbcEndpoints /\ NavigationFailed) =>
        /\ CountOp("goto") = 1
        /\ CountOp("waitForNavigation") <= 1
        /\ ~Tried("evaluate")
        /\ \A op \in StepsAfterScrape : ~Tried(op)
        /\ html = <<>> /\ files = {} /\ imagePath = "unset"
        /\ captureBrowser = "none" /\ telegram = "none" /\ unlinkState = "none"
        /\ \A i \in 1..Len(responses) : responses[i].status = 500
        /\ pc = "done" => Len(responses) = 1

\* The navigation after the date form timed out and the request has been
\* answered with the failure response.
C2_Witness ==
    /\ pc = "done"
    /\ endpoint = "table"
    /\ Failed("waitForNavigation")
    /\ responses = <<Response(500, "text", "error")>>


----------------------------------------------------------------------------
(* Properties of the table extraction.                                     *)

\* The page.evaluate call has resolved: data and warnings hold its result.
Extracted == \E i \in 1..Len(log) : log[i] = Step("evaluate", TRUE)

HeaderCells == page.rows[1]
DataRows == Tail(page.rows)
HeaderKeys == [c \in 1..Len(HeaderCells) |-> Trim(HeaderCells[c])]
WellFormed(r) == Len(DataRows[r]) = Len(HeaderCells)
AllWellFormed == \A r \in 1..Len(DataRows) : WellFormed(r)

NonWsIdx(s) == {i \in 1..Len(s) : ~IsWs(s[i])}
KthNonWs(s, k) == CHOOSE i \in NonWsIdx(s) : Cardinality({j \in NonWsIdx(s) : j <= i}) = k

\* v is t trimmed, with every run of white space inside it turned into one space:
\* the same visible atoms, adjacent in v exactly when adjacent in t, single
\* spaces as the only white space of v, and none at its ends.
IsCollapseOf(v, t) ==
    /\ Cardinality(NonWsIdx(v)) = Cardinality(NonWsIdx(t))
    /\ \A k \in 1..Cardinality(NonWsIdx(t)) : v[KthNonWs(v, k)] = t[KthNonWs(t, k)]
    /\ \A k \in 2..Cardinality(NonWsIdx(t)) :
          (KthNonWs(v, k) = KthNonWs(v, k - 1) + 1) <=> (KthNonWs(t, k) = KthNonWs(t, k - 1) + 1)
    /\ \A i \in 1..Len(v) :
          IsWs(v[i]) => /\ v[i] = " "
                        /\ i > 1 /\ i < Len(v)
                        /\ ~IsWs(v[i - 1])

\* C3: when every data row has as many cells as the header, the extraction
\* yields one record per row, the i-th from the i-th row, each with exactly
\* the header's labels as keys in header order, each value the cell's text
\* trimmed and white-space collapsed.
C3_RecordPerRowWithHeaderKeys ==
    (Extracted /\ AllWellFormed) =>
        /\ Len(data.detailed_rates) = Len(DataRows)
        /\ \A r \in 1..Len(DataRows) :
              /\ ObjectKeys(data.detailed_rates[r]) = HeaderKeys
              /\ \A c \in 1..Len(HeaderCells) :
                    IsCollapseOf(ObjGet(data.detailed_rates[r], HeaderKeys[c]),
                                 DataRows[r][c])

WellFormedRows == {r \in 1..Len(DataRows) : WellFormed(r)}
KthWellFormed(k) ==
    CHOOSE r \in WellFormedRows : Cardinality({q \in WellFormedRows : q <= r}) = k

\* Record rec carries the marker of data row r in one of its values.
ComesFromRow(rec, r) ==
    \E j \in 1..Len(rec) : \E i \in 1..Len(rec[j].v) : rec[j].v[i] = RowTag[r]

RowWarnings == SelectSeq(warnings, LAMBDA w : w.kind = "row")

\* C5: one warning is recorded per dropped row, naming it, so that records
\* plus warnings add up to the data rows.
C5_OneWarningPerDroppedRow ==
    Extracted =>
        /\ Len(data.detailed_rates) + Len(RowWarnings) = Len(DataRows)
        /\ Len(RowWarnings) = Len(warnings)
        /\ \A r \in 1..Len(DataRows) :
              ~WellFormed(r) <=>
                  \E i \in 1..Len(RowWarnings) :
                      RowWarnings[i] = [kind |-> "row", row |-> r,
                                        cells |-> Len(DataRows[r]),
                                        headers |-> Len(HeaderCells)]

\* One 4-cell data row against a 5-cell header: no record, one warning.
C5_Witness ==
    /\ Extracted
    /\ Len(HeaderCells) = 5
    /\ Len(DataRows) = 1 /\ Len(DataRows[1]) = 4
    /\ data.detailed_rates = <<>>
    /\ Len(warnings) = 1


----------------------------------------------------------------------------
(* Properties of the renderers.                                            *)

CountAtom(doc, a) == Cardinality({i \in 1..Len(doc) : doc[i] = a})
FirstAtom(doc, a, from) == CHOOSE i \in from..Len(doc) :
                              doc[i] = a /\ \A j \in from..(i - 1) : doc[j] # a

NoRates == ~HasField(data, "detailed_rates") \/ data.detailed_rates = <<>>

\* C6: for a snapshot whose detailed_rates is empty or missing,
\* generateHtmlTable returns, without raising, a complete document whose
\* table holds exactly one row, the placeholder, and no header row.
C6_PlaceholderDocument ==
    (pc = "table_rendered" /\ NoRates) =>
        /\ exc = "none"
        /\ html[1] = "<!DOCTYPE html>" /\ html[Len(html)] = "</html>"
        /\ CountAtom(html, "<table>") = 1 /\ CountAtom(html, "</table>") = 1
        /\ CountAtom(html, "<tr>") = 1 /\ CountAtom(html, "</tr>") = 1
        /\ CountAtom(html, PlaceholderText) = 1
        /\ CountAtom(html, "<thead>") = 0 /\ CountAtom(html, "<th>") = 0
        /\ FirstAtom(html, "<table>", 1) < FirstAtom(html, "<tr>", 1)
        /\ FirstAtom(html, "<tr>", 1) < FirstAtom(html, PlaceholderText, 1)
        /\ FirstAtom(html, PlaceholderText, 1) < FirstAtom(html, "</tr>", 1)
        /\ FirstAtom(html, "</tr>", 1) < FirstAtom(html, "</table>", 1)

\* The table has been rendered from a snapshot that has no detailed_rates.
C6_Witness ==
    /\ pc = "table_rendered"
    /\ ~HasField(data, "detailed_rates")
    /\ CountAtom(html, PlaceholderText) = 1

\* The elements of the JSON array that follows the atom tag in doc.
RECURSIVE SplitElems(_)
SplitElems(body) ==
    IF body = <<>> THEN <<>>
    ELSE IF CountAtom(body, "json:,") = 0 THEN <<body>>
    ELSE LET c == FirstAtom(body, "json:,", 1)
         IN  <<SubSeq(body, 1, c - 1)>> \o SplitElems(SubSeq(body, c + 1, Len(body)))

ArrayAfter(doc, tag) ==
    LET open == FirstAtom(doc, tag, 1) + 1
        shut == FirstAtom(doc, "json:]", open)
    IN  SplitElems(SubSeq(doc, open + 1, shut - 1))

\* Text v starts, after white space and an optional sign, with a digit or
\* with a point and a digit.
ParsesAsNumber(v) ==
    /\ v # Undefined
    /\ \E w \in 0..Len(v) : \E sg \in {0, 1} :
          LET p == w + sg + 1
          IN  /\ \A j \in 1..w : IsWs(v[j])
              /\ sg = 1 => (w + 1 <= Len(v) /\ v[w + 1] \in {"+", "-"})
              /\ p <= Len(v)
              /\ \/ IsDigit(v[p])
                 \/ v[p] = "." /\ p + 1 <= Len(v) /\ IsDigit(v[p + 1])

IsNumberLiteral(e) ==
    /\ e # <<>>
    /\ \A i \in 1..Len(e) : IsDigit(e[i]) \/ e[i] \in {"-", "."}
    /\ \E i \in 1..Len(e) : IsDigit(e[i])

\* C7: the chart's dataset has one label and one value per record, in record
\* order; a record whose Average does not parse as a number is kept, its
\* value being the invalid marker null, and nothing is raised.
C7_OneLabelAndValuePerRecord ==
    pc = "chart_rendered" =>
        LET labels == ArrayAfter(html, "labels:")
            values == ArrayAfter(html, "data:")
            recs   == data.detailed_rates
        IN  /\ exc = "none"
            /\ Len(labels) = Len(recs) /\ Len(values) = Len(recs)
            /\ \A i \in 1..Len(recs) :
                  LET cur == ObjGet(recs[i], <<"Currency">>)
                      avg == ObjGet(recs[i], <<"Average">>)
                  IN  /\ IF cur = Undefined THEN labels[i] = <<"null">>
                         ELSE /\ Len(labels[i]) = Len(cur) + 2
                              /\ labels[i][1] = "json:q"
                              /\ labels[i][Len(cur) + 2] = "json:q"
                              /\ \A j \in 1..Len(cur) :
                                    \/ labels[i][j + 1] = cur[j]
                                    \/ cur[j] = "\"" /\ labels[i][j + 1] = "\\\""
                      /\ IF ParsesAsNumber(avg) THEN IsNumberLiteral(values[i])
                         ELSE values[i] = <<"null">>

\* A chart of two records, the second with the Average text N/A, holds two
\* values, the second being null.
C7_Witness ==
    /\ pc = "chart_rendered"
    /\ Len(data.detailed_rates) = 2
    /\ ObjGet(data.detailed_rates[1], <<"Average">>) = <<"1", "2", "4">>
    /\ ObjGet(data.detailed_rates[2], <<"Average">>) = <<"N", "/", "A">>
    /\ ArrayAfter(html, "data:") = << <<"1", "2", "4">>, <<"null">> >>

\* C8: no markup-significant character of a snapshot value reaches the
\* produced document unescaped: no bare < or > in either document, and no
\* bare quote inside the chart's quoted title.
C8_SnapshotTextEscaped ==
    /\ pc \in {"table_rendered", "chart_rendered"} =>
          \A i \in 1..Len(html) : html[i] \notin {"<", ">"}
    /\ pc = "chart_rendered" =>
          \A i \in 1..Len(html) :
              (i > FirstAtom(html, "text: '", 1) /\ i < Len(html) - 3) => html[i] # "'"


----------------------------------------------------------------------------
(* Properties of the capture and of what the endpoints do with its result. *)

CaptureReturned == Tried("mkdirImages") /\ pc \notin ImgPcs

\* C9: when page.$ finds no .container element, saveHtmlTableAsImage returns
\* null, raises nothing, takes no screenshot and writes no image file, and
\* its browser is closed once it has returned.
C9_MissingContainerYieldsNull ==
    (endpoint \in {"table", "filtered", "daily"} /\ container = "missing") =>
        /\ imagePath = "null"
        /\ exc = "none"
        /\ ~Tried("screenshot")
        /\ ImageFile \notin files
        /\ CaptureReturned => captureBrowser = "closed"

\* The capture has returned null for a document without the container.
C9_Witness ==
    /\ CaptureReturned
    /\ container = "missing"
    /\ imagePath = "null"
    /\ captureBrowser = "closed"
    /\ files = {JsonFile}

NoArtifact == CaptureReturned /\ imagePath = "null"

\* C10: when the capture yields no artifact, /nbc-exr-rate still answers 200
\* with the rendered table, whereas /api/daily-report answers 500 and neither
\* pushes to the notifier nor deletes a file.
C10_NoArtifactByEndpoint ==
    /\ (endpoint = "table" /\ NoArtifact /\ pc = "done") =>
          responses = <<Response(200, "html", "table")>>
    /\ (endpoint = "daily" /\ NoArtifact) =>
          /\ telegram = "none" /\ unlinkState = "none"
          /\ ~Tried("fetch") /\ ~Tried("unlink")
          /\ \A i \in 1..Len(responses) : responses[i].status = 500
          /\ pc = "done" => Len(responses) = 1

\* The daily report has been answered after a capture without an artifact.
C10_Witness ==
    /\ endpoint = "daily"
    /\ pc = "done"
    /\ NoArtifact
    /\ container = "missing"
    /\ responses = <<Response(500, "json", "no_image")>>


----------------------------------------------------------------------------
(* Properties of /api/daily-report after the capture.                      *)

\* sendImageToTelegram has been called on the captured image.
SendAttempted ==
    /\ endpoint = "daily"
    /\ pc \in {"tg_cfg", "tg_fetch", "tg_json"} \/ telegram # "none"

ChainSucceeded ==
    /\ \A i \in 1..Len(log) : log[i].ok
    /\ Tried("evaluate") /\ Tried("render")
    /\ imagePath = "path"
    /\ telegram = "sent"

\* C12: the payload of /api/daily-report reports success exactly when the
\* whole chain succeeded; a failed, rejected or skipped notifier push makes
\* it report failure, as does any earlier failure.
C12_StatusReflectsWholeChain ==
    (endpoint = "daily" /\ pc = "done") =>
        /\ Len(responses) = 1
        /\ responses[1].status = 200 <=> ChainSucceeded


----------------------------------------------------------------------------
(* Properties of the configuration checks.                                 *)

\* The environment variables the route of the request needs.
RequiredEnv ==
    IF endpoint = "daily" THEN {"NBC_WEBSITE", "TELEGRAM_BOT_TOKEN", "TELEGRAM_CHAT_ID"}
    ELSE IF endpoint \in NbcEndpoints THEN {"NBC_WEBSITE"}
    ELSE IF endpoint = "nssf" THEN {"NSSF_WEBSITE"}
    ELSE IF endpoint = "gdt" THEN {"GDT_WEBSITE"}
    ELSE {}

AutomationSteps ==
    {"launch", "newPage", "goto", "evaluate", "captureLaunch", "captureNewPage",
     "setContent", "screenshot", "mkdirData", "writeJson", "mkdirImages", "fetch"}

\* C13: when a source URL or messaging credential the request needs is
\* missing, no browser is launched, nothing is navigated, captured or
\* written, and the request is answered with a failure.
C13_MissingConfigurationFailsFirst ==
    ~(RequiredEnv \subseteq env) =>
        /\ \A op \in AutomationSteps : ~Tried(op)
        /\ scrapeBrowser = "none" /\ captureBrowser = "none"
        /\ files = {}
        /\ pc = "done" => (Len(responses) = 1 /\ responses[1].status = 500)


----------------------------------------------------------------------------
(* Properties of the rendering endpoints when saving or capturing fails.   *)

PersistenceFailed ==
    \/ Failed("mkdirData") \/ Failed("writeJson")
    \/ Failed("mkdirImages") \/ Failed("screenshot")

\* C14: in /nbc-exr-rate and /nbc-filtered-exr-table a failure to create a
\* target directory or to write the JSON or image file does not fail the
\* response: the request still answers 200 with the rendered document.
C14_PersistenceFailureStillServes ==
    (endpoint \in {"table", "filtered"} /\ PersistenceFailed /\ pc = "done") =>
        responses = <<Response(200, "html", "table")>>


----------------------------------------------------------------------------
(* src/unnamed/part_000: the same scrapers and renderers, but the two      *)
(* rendering handlers save and capture inline, inside the handler's own    *)
(* try / catch / finally, and there is no daily report.                    *)

InlineEndpoints == {"table", "filtered"}

\* app.get('/nbc-exr-rate' | '/nbc-filtered-exr-table', async (req, res) => ...
ReceiveInline ==
    /\ pc = "idle"
    /\ \E e \in InlineEndpoints, d \in DateParams :
          /\ endpoint' = e
          /\ date' = d
          /\ pc' = "nbc_cfg"
    /\ UNCHANGED <<env, exc, log, browserVars, scrapeVars, captureVars, fsVars, outVars>>

\* An awaited call inside the handler's try: a rejection goes to its catch.
InlineAwait(at, op, next) == Await(at, op, next, "ep_catch", op)

\* generateHtmlTable(data, ...), after the filter in /nbc-filtered-exr-table
InlineRender ==
    /\ pc = "ep_scraped"
    /\ filteredData' = IF endpoint = "filtered" THEN FilteredSnapshot(data) ELSE filteredData
    /\ html' = IF endpoint = "filtered"
               THEN GenerateHtmlTable(filteredData', FilteredTitle)
               ELSE GenerateHtmlTable(data, TableTitle)
    /\ log' = Append(log, Step("render", TRUE))
    /\ pc' = IF endpoint = "filtered" THEN "in_mkdir" ELSE "in_json"
    /\ UNCHANGED <<reqVars, exc, browserVars, page, data, scraped, warnings, container,
                   imagePath, fsVars, outVars>>

\* if (data && data.exchange_date) { mkdirSync; try { writeFileSync } catch {} }
InlineSaveJson ==
    /\ pc = "in_json"
    /\ IF ~UsableDate(data)
       THEN /\ pc' = "in_mkdir"
            /\ UNCHANGED <<exc, log, files, dirs>>
       ELSE \E mk \in BOOLEAN, wr \in BOOLEAN :
              IF "./data_json" \notin dirs /\ ~mk
              THEN /\ exc' = "mkdirData"
                   /\ pc' = "ep_catch"
                   /\ log' = Append(log, Step("mkdirData", FALSE))
                   /\ UNCHANGED <<files, dirs>>
              ELSE /\ dirs' = dirs \cup {"./data_json"}
                   /\ files' = IF wr THEN files \cup {JsonFile} ELSE files
                   /\ log' = Append(log, Step("writeJson", wr))
                   /\ pc' = "in_mkdir"
                   /\ exc' = exc
    /\ UNCHANGED <<reqVars, browserVars, scrapeVars, captureVars, outVars>>

\* if (!fs.existsSync(imageDir)) { fs.mkdirSync(imageDir, { recursive: true }) }
InlineMkdir ==
    /\ pc = "in_mkdir"
    /\ IF "./images" \in dirs
       THEN /\ pc' = "in_launch"
            /\ UNCHANGED <<exc, log, dirs>>
       ELSE \E ok \in BOOLEAN :
              /\ log' = Append(log, Step("mkdirImages", ok))
              /\ dirs' = IF ok THEN dirs \cup {"./images"} ELSE dirs
              /\ pc' = IF ok THEN "in_launch" ELSE "ep_catch"
              /\ exc' = IF ok THEN exc ELSE "mkdirImages"
    /\ UNCHANGED <<reqVars, browserVars, scrapeVars, captureVars, files, outVars>>

InlineLaunch ==
    /\ InlineAwait("in_launch", "captureLaunch", "in_newPage")
    /\ captureBrowser' = IF pc' = "in_newPage" THEN "open" ELSE captureBrowser
    /\ UNCHANGED <<reqVars, scrapeBrowser, scrapeVars, captureVars, fsVars, outVars>>

InlineNewPage ==
    /\ InlineAwait("in_newPage", "captureNewPage", "in_setContent")
    /\ UNCHANGED <<reqVars, browserVars, scrapeVars, captureVars, fsVars, outVars>>

InlineSetContent ==
    /\ InlineAwait("in_setContent", "setContent", "in_measure")
    /\ UNCHANGED <<reqVars, browserVars, scrapeVars, captureVars, fsVars, outVars>>

InlineMeasure ==
    /\ InlineAwait("in_measure", "measure", "in_setViewport")
    /\ UNCHANGED <<reqVars, browserVars, scrapeVars, captureVars, fsVars, outVars>>

InlineSetViewport ==
    /\ InlineAwait("in_setViewport", "setViewport", "in_find")
    /\ UNCHANGED <<reqVars, browserVars, scrapeVars, captureVars, fsVars, outVars>>

\* const container = await page.$(containerSelector); if (container) ... else warn
InlineFind ==
    /\ pc = "in_find"
    /\ \E r \in {"found", "missing", "error"} :
          /\ log' = Append(log, Step("findContainer", r # "error"))
          /\ container' = IF r = "error" THEN container ELSE r
          /\ pc' = IF r = "found" THEN "in_screenshot"
                   ELSE IF r = "missing" THEN "in_send" ELSE "ep_catch"
          /\ exc' = IF r = "error" THEN "findContainer" ELSE exc
    /\ UNCHANGED <<reqVars, browserVars, scrapeVars, html, imagePath, fsVars, outVars>>

\* await container.screenshot({ path: imagePath, fullPage: false })
InlineScreenshot ==
    /\ InlineAwait("in_screenshot", "screenshot", "in_send")
    /\ files' = IF pc' = "in_send" THEN files \cup {ImageFile} ELSE files
    /\ UNCHANGED <<reqVars, browserVars, scrapeVars, captureVars, dirs, outVars>>

\* res.setHeader('Content-Type', 'text/html'); res.send(htmlTable)
InlineSend ==
    /\ pc = "in_send"
    /\ responses' = Append(responses, Response(200, "html", "table"))
    /\ pc' = "in_finally"
    /\ UNCHANGED <<reqVars, exc, log, browserVars, scrapeVars, captureVars, fsVars,
                   telegram, unlinkState>>

\* catch (e) { res.status(500).setHeader('Content-Type', 'text/plain').send(...) }
InlineCatch ==
    /\ pc = "ep_catch"
    /\ responses' = Append(responses, Response(500, "text", "error"))
    /\ exc' = "none"
    /\ pc' = "in_finally"
    /\ UNCHANGED <<reqVars, log, browserVars, scrapeVars, captureVars, fsVars,
                   telegram, unlinkState>>

\* finally { if (browser) { await browser.close() } }
InlineFinally ==
    /\ pc = "in_finally"
    /\ captureBrowser' = Closed(captureBrowser)
    /\ log' = IF captureBrowser = "open" THEN Append(log, Step("captureClose", TRUE)) ELSE log
    /\ pc' = "done"
    /\ UNCHANGED <<reqVars, exc, scrapeBrowser, scrapeVars, captureVars, fsVars, outVars>>

NextInline ==
    \/ ReceiveInline
    \/ NbcConfig \/ NbcLaunch \/ NbcNewPage \/ NbcGoto \/ NbcFocus \/ NbcClear
    \/ NbcType \/ NbcClick \/ NbcWaitNav \/ NbcEvaluate \/ NbcFinally
    \/ InlineRender \/ InlineSaveJson \/ InlineMkdir \/ InlineLaunch \/ InlineNewPage
    \/ InlineSetContent \/ InlineMeasure \/ InlineSetViewport \/ InlineFind
    \/ InlineScreenshot \/ InlineSend \/ InlineCatch \/ InlineFinally

SpecInline == Init /\ [][NextInline]_vars

CaptureFailed ==
    \E op \in {"captureLaunch", "captureNewPage", "setContent", "measure", "setViewport",
               "findContainer", "screenshot"} : Failed(op)

\* C15: in the rendering endpoints, once the scrape has succeeded, a failure
\* of the capture (browser launch, content load, screenshot) leaves the
\* response as it is: 200 with the rendered document.
C15_CaptureFailureStillServes ==
    (endpoint \in {"table", "filtered"} /\ Extracted /\ CaptureFailed /\ pc = "done") =>
        responses = <<Response(200, "html", "table")>>


----------------------------------------------------------------------------
(* Properties of the data-only endpoints and of the chart endpoint.        *)

\* C16: /nssf-exr-rate and /exr-rate answer every extraction or navigation
\* failure, the source element not being found included, with an error
\* payload and no data; a success response carries a complete snapshot.
C16_DataEndpointsFailWithoutData ==
    (endpoint \in {"nssf", "gdt"} /\ pc = "done") =>
        /\ Len(responses) = 1
        /\ responses[1].status = 200 => responses[1].body = "object"
        /\ responses[1].status # 200 =>
              responses[1] = Response(500, "json", "error")
        /\ (\E i \in 1..Len(log) : ~log[i].ok) => responses[1].status = 500


\* C17: /nbc-exr-chart writes no JSON or image file and creates no directory
\* on any path; when the scrape yields no detailed row it answers with an
\* error payload and launches no capture browser.
C17_ChartWritesNothing ==
    endpoint = "chart" =>
        /\ files = {}
        /\ \A op \in {"mkdirData", "writeJson", "mkdirImages", "unlink"} : ~Tried(op)
        /\ dirs \in {{}, AllDirs}
        /\ (Extracted /\ pc \notin NbcPcs /\ data.detailed_rates = <<>>) =>
              /\ captureBrowser = "none"
              /\ ~Tried("captureLaunch") /\ ~Tried("render")
              /\ pc = "done" => responses = <<Response(404, "json", "no_data")>>

\* The chart request has been answered for a scrape without detailed rows.
C17_Witness ==
    /\ endpoint = "chart"
    /\ pc = "done"
    /\ Extracted
    /\ data.detailed_rates = <<>>
    /\ responses = <<Response(404, "json", "no_data")>>


----------------------------------------------------------------------------
(* The filter of /nbc-filtered-exr-table alone, applied to any of          *)
(* FilterSnapshots.                                                        *)

FilterRecords ==
    { Obj2(<<"Currency">>, <<"Japanese", " ", "Yen">>, <<"Average">>, <<"2", "7">>),
      Obj2(<<"Currency">>, <<"US", " ", "Dollar">>, <<"Average">>, <<"4", "0", "1", "5">>),
      Obj2(<<"Currency">>, <<"European", " ", "Euro">>, <<"Average">>, <<"4", "7", "0", "0">>),
      Obj2(<<"Currency">>, <<"Euro">>, <<"Average">>, <<"1">>),
      Obj2(<<"Currency">>, <<" ", "Thai", " ", "Baht">>, <<"Average">>, <<"1", "2", "4">>),
      Obj1(<<"Average">>, <<"9">>) }

FilterLists == UNION {[1..n -> FilterRecords] : n \in 0..(MaxRecords + 1)}

FilterSnapshots ==
    { [exchange_date |-> d, official_exchange_rate |-> r, detailed_rates |-> l] :
         d \in {<<>>, DatePlain}, r \in RateChoices, l \in FilterLists }
    \cup { [exchange_date |-> DatePlain, official_exchange_rate |-> <<"4015">>] }

InitFilter ==
    /\ env = EnvVars
    /\ dirs = AllDirs
    /\ endpoint = "filtered"
    /\ date = <<>>
    /\ pc = "filter_input"
    /\ exc = "none"
    /\ log = <<>>
    /\ scrapeBrowser = "closed"
    /\ captureBrowser = "none"
    /\ page = NoPage
    /\ data \in FilterSnapshots
    /\ filteredData = EmptySnapshot
    /\ scraped = "none"
    /\ warnings = <<>>
    /\ html = <<>>
    /\ container = "unset"
    /\ imagePath = "unset"
    /\ files = {}
    /\ responses = <<>>
    /\ telegram = "none"
    /\ unlinkState = "none"

\* const filteredData = { ... detailed_rates: filteredRates }
CallFilter ==
    /\ pc = "filter_input"
    /\ filteredData' = FilteredSnapshot(data)
    /\ pc' = "filtered"
    /\ UNCHANGED <<reqVars, exc, log, browserVars, page, data, scraped, warnings,
                   captureVars, fsVars, outVars>>

NextFilter == CallFilter

SpecFilter == InitFilter /\ [][NextFilter]_vars

SourceRates == IF HasField(data, "detailed_rates") THEN data.detailed_rates ELSE <<>>
AllowedIdx == {i \in 1..Len(SourceRates) :
                  ObjGet(SourceRates[i], <<"Currency">>) \in CurrenciesToFilter}
KthAllowed(k) == CHOOSE i \in AllowedIdx : Cardinality({j \in AllowedIdx : j <= i}) = k

\* C18: the filtered snapshot holds exactly the records whose Currency is in
\* the allow-list, in the relative order of the source snapshot, and carries
\* the exchange date and the official rate over unchanged.
C18_FilterKeepsAllowedInOrder ==
    pc = "filtered" =>
        /\ filteredData.exchange_date = data.exchange_date
        /\ filteredData.official_exchange_rate = data.official_exchange_rate
        /\ Len(filteredData.detailed_rates) = Cardinality(AllowedIdx)
        /\ \A k \in 1..Cardinality(AllowedIdx) :
              filteredData.detailed_rates[k] = SourceRates[KthAllowed(k)]

\* Source order Yen, Dollar, Euro has been filtered to Yen, Euro.
C18_Witness ==
    /\ pc = "filtered"
    /\ Len(SourceRates) = 3
    /\ ObjGet(SourceRates[1], <<"Currency">>) = <<"Japanese", " ", "Yen">>
    /\ ObjGet(SourceRates[2], <<"Currency">>) = <<"US", " ", "Dollar">>
    /\ ObjGet(SourceRates[3], <<"Currency">>) = <<"European", " ", "Euro">>
    /\ filteredData.detailed_rates = <<SourceRates[1], SourceRates[3]>>


----------------------------------------------------------------------------
(* The file names of saveJsonData and saveHtmlTableAsImage alone, for any  *)
(* scraped date of NameDates and any clock reading of IsoStamps.           *)

\* .replace(/[:.]/g, '-')
RECURSIVE ReplaceColonsDots(_)
ReplaceColonsDots(s) ==
    IF s = <<>> THEN <<>>
    ELSE <<IF Head(s) \in {":", "."} THEN "-" ELSE Head(s)>> \o ReplaceColonsDots(Tail(s))

\* now.toISOString().replace(/[:.]/g, '-')
Timestamp(iso) == ReplaceColonsDots(iso)

\* `${dataDir}/nbc_exchange_rate_${data.exchange_date.replace(/-/g, '_')}_${timestamp}.json`
JsonFilename(dataDir, exchangeDate, iso) ==
    <<dataDir, "/", "nbc_exchange_rate", "_">> \o ReplaceDashes(exchangeDate)
        \o <<"_">> \o Timestamp(iso) \o <<".json">>

\* let filenamePrefix = ...; if (isFiltered) ...; if (isCronJob) ...
PrefixOf(isFiltered, isCronJob) ==
    IF isCronJob THEN "nbc_daily_report_table"
    ELSE IF isFiltered THEN "nbc_filtered_exchange_rate_table"
    ELSE "nbc_exchange_rate_table"

\* path.join(imageDir, name), for the two values of imageDir
PathJoin(imageDir, name) ==
    <<IF imageDir = "./images" THEN "images" ELSE imageDir, "/">> \o name

\* path.join(imageDir, `${filenamePrefix}_${date.replace(/-/g, '_')}_${timestamp}.png`)
ImageFilename(isFiltered, isCronJob, d, iso) ==
    PathJoin(IF isCronJob THEN "/tmp/images" ELSE "./images",
             <<PrefixOf(isFiltered, isCronJob), "_">> \o ReplaceDashes(d)
                 \o <<"_">> \o Timestamp(iso) \o <<".png">>)

\* Values of new Date().toISOString()
IsoStamps ==
    { <<"2025", "-", "07", "-", "04", "T", "10", ":", "00", ":", "00", ".", "000", "Z">>,
      <<"2025", "-", "12", "-", "31", "T", "23", ":", "59", ":", "59", ".", "999", "Z">> }

NameAtoms == {"2025", "07", "-", ":"}

\* Texts the page may show in the date element.
NameDates == UNION {[1..n -> NameAtoms] : n \in 0..MaxTextLen} \cup {DatePlain}

InitNames ==
    /\ env = EnvVars
    /\ dirs = AllDirs
    /\ endpoint = "none"
    /\ date = <<>>
    /\ pc = "name_input"
    /\ exc = "none"
    /\ log = <<>>
    /\ scrapeBrowser = "closed"
    /\ captureBrowser = "none"
    /\ page = NoPage
    /\ data \in { [exchange_date |-> d, official_exchange_rate |-> <<"4015">>,
                   detailed_rates |-> <<>>] : d \in NameDates }
    /\ filteredData = EmptySnapshot
    /\ scraped = "none"
    /\ warnings = <<>>
    /\ html = <<>>
    /\ container = "found"
    /\ imagePath = "unset"
    /\ files = {}
    /\ responses = <<>>
    /\ telegram = "none"
    /\ unlinkState = "none"

\* saveJsonData(data): the file it writes, under its full name
NameJson ==
    /\ pc = "name_input"
    /\ data.exchange_date # <<>>
    /\ \E iso \in IsoStamps, dataDir \in {"./data_json", "/tmp/data_json"} :
          files' = files \cup {[kind |-> "json", date |-> data.exchange_date, stamp |-> iso,
                                name |-> JsonFilename(dataDir, data.exchange_date, iso)]}
    /\ pc' = "named"
    /\ UNCHANGED <<reqVars, exc, log, browserVars, scrapeVars, captureVars, dirs, outVars>>

\* saveHtmlTableAsImage(htmlContent, data.exchange_date, isFiltered, isCronJob):
\* the file it writes when the container is found, under its full name
NameImage ==
    /\ pc = "name_input"
    /\ \E iso \in IsoStamps, isFiltered \in BOOLEAN, isCronJob \in BOOLEAN :
          files' = files \cup {[kind |-> "image", date |-> data.exchange_date, stamp |-> iso,
                                name |-> ImageFilename(isFiltered, isCronJob,
                                                       data.exchange_date, iso)]}
    /\ pc' = "named"
    /\ UNCHANGED <<reqVars, exc, log, browserVars, scrapeVars, captureVars, dirs, outVars>>

NextNames == NameJson \/ NameImage

SpecNames == InitNames /\ [][NextNames]_vars

Contains(name, seg) ==
    \E o \in 0..(Len(name) - Len(seg)) : SubSeq(name, o + 1, o + Len(seg)) = seg

ExampleStamp ==
    <<"2025", "-", "07", "-", "04", "T", "10", ":", "00", ":", "00", ".", "000", "Z">>

ExampleSegment ==
    <<"2025", "_", "07", "_", "04", "_",
      "2025", "-", "07", "-", "04", "T", "10", "-", "00", "-", "00", "-", "000", "Z">>

\* C19: for every scraped date and every clock reading, the name of the file
\* saveJsonData or saveHtmlTableAsImage writes holds no ':'; the date
\* 2025-07-04 at 2025-07-04T10:00:00.000Z gives the segment
\* 2025_07_04_2025-07-04T10-00-00-000Z.
C19_FilenamesHaveNoColon ==
    \A f \in files :
        /\ \A i \in 1..Len(f.name) : f.name[i] # ":"
        /\ (f.date = DatePlain /\ f.stamp = ExampleStamp) => Contains(f.name, ExampleSegment)


----------------------------------------------------------------------------
(* saveJsonData alone, called with any of SaveSnapshots.                   *)

\* The argument null or undefined.
NullData == [null |-> TRUE]

SaveSnapshots ==
    { [exchange_date |-> d, official_exchange_rate |-> <<"4015">>, detailed_rates |-> <<>>] :
         d \in NameDates }
    \cup { NullData, [official_exchange_rate |-> <<"4015">>, detailed_rates |-> <<>>] }

InitSave ==
    /\ env = EnvVars
    /\ dirs \in SUBSET AllDirs
    /\ endpoint = "table"
    /\ date = <<>>
    /\ pc = "json_save"
    /\ exc = "none"
    /\ log = <<>>
    /\ scrapeBrowser = "closed"
    /\ captureBrowser = "none"
    /\ page = NoPage
    /\ data \in SaveSnapshots
    /\ filteredData = EmptySnapshot
    /\ scraped = "none"
    /\ warnings = <<>>
    /\ html = <<>>
    /\ container = "unset"
    /\ imagePath = "unset"
    /\ files = {}
    /\ responses = <<>>
    /\ telegram = "none"
    /\ unlinkState = "none"

NextSave == SaveJsonData

SpecSave == InitSave /\ [][NextSave]_vars

\* saveJsonData returned the path of the file it wrote.
ReturnedPath == \E i \in 1..Len(log) : log[i] = Step("writeJson", TRUE)

----------------------------------------------------------------------------
(* The order of the steps of scrapeNBC.                                    *)

FormSteps == <<"focus", "clear", "type", "click", "waitForNavigation">>

\* The awaited steps of scrapeNBC for the request's date, in program order.
ExpectedScrape ==
    <<"launch", "newPage", "goto">>
        \o (IF date # <<>> THEN FormSteps ELSE <<>>) \o <<"evaluate">>

\* What scrapeNBC has awaited so far.
ScrapeLog == SelectSeq(log, LAMBDA s : s.op \in {ExpectedScrape[i] : i \in 1..Len(ExpectedScrape)}
                                              \cup {FormSteps[i] : i \in 1..Len(FormSteps)})

\* C24: with a date, scrapeNBC navigates, focuses the date input, clears it,
\* types the date, submits, awaits the second navigation and only then
\* extracts, each step after the previous one has completed; a failure of any
\* step fails the run with nothing extracted.  Without a date no form step
\* runs and the extraction follows the first navigation.
C24_DateFormBeforeExtraction ==
    endpoint \in NbcEndpoints =>
        /\ Len(ScrapeLog) <= Len(ExpectedScrape)
        /\ \A i \in 1..Len(ScrapeLog) :
              /\ ScrapeLog[i].op = ExpectedScrape[i]
              /\ i < Len(ScrapeLog) => ScrapeLog[i].ok
        /\ date = <<>> => \A i \in 1..Len(FormSteps) : ~Tried(FormSteps[i])
        /\ (\E i \in 1..Len(ScrapeLog) : ~ScrapeLog[i].ok) =>
              /\ pc \in {"nbc_finally", "ep_catch", "done"}
              /\ pc # "done" => exc # "none"
              /\ pc = "done" => responses = <<Response(500, IF endpoint \in {"table", "filtered"}
                                                              THEN "text" ELSE "json", "error")>>
              /\ data = EmptySnapshot
              /\ \A op \in StepsAfterScrape : ~Tried(op)
        /\ (\E i \in 1..Len(FormSteps) : Failed(FormSteps[i]) \/ Failed("goto")) =>
              ~Tried("evaluate")

\* A request with a date has gone through the whole form and extracted.
C24_Witness ==
    /\ endpoint = "table"
    /\ date = DatePlain
    /\ Ops(ScrapeLog) = <<"launch", "newPage", "goto", "focus", "clear", "type", "click",
                          "waitForNavigation", "evaluate">>
    /\ ScrapeLog[9].ok
    /\ data # EmptySnapshot


----------------------------------------------------------------------------
(* The order of the pipeline steps of one request.                         *)

CaptureSteps ==
    {"mkdirImages", "captureLaunch", "captureNewPage", "setContent", "measure",
     "setViewport", "findContainer", "screenshot", "captureClose"}

\* The place of a logged step in navigate (1), extract and normalize (2),
\* render (3), capture (4), persist (5), notify (6) and the clean-up (7).
StepRank(op) ==
    IF op \in {"launch", "newPage", "goto", "focus", "clear", "type", "click",
               "waitForNavigation"} THEN 1
    ELSE IF op \in {"evaluate", "close"} THEN 2
    ELSE IF op = "render" THEN 3
    ELSE IF op \in CaptureSteps THEN 4
    ELSE IF op \in {"mkdirData", "writeJson"} THEN 5
    ELSE IF op \in {"fetch", "responseJson"} THEN 6
    ELSE 7

\* C25: within one request the steps run one after the other in the order
\* navigate, extract, normalize, render, capture, persist, notify; nothing is
\* persisted before the capture has finished.
C25_StepsInPipelineOrder ==
    endpoint \in NbcEndpoints =>
        /\ \A i, j \in 1..Len(log) : i < j => StepRank(log[i].op) <= StepRank(log[j].op)
        /\ JsonFile \in files => pc \notin ImgPcs \cup {"json_save"}


----------------------------------------------------------------------------
(* The browsers of one request.                                            *)

\* C28: within one request at most one browser is open at any moment; the
\* scraping browser is closed before the capture browser is launched, in the
\* table, filtered-table, chart and daily-report endpoints.
C28_OneBrowserAtATime ==
    /\ ~(scrapeBrowser = "open" /\ captureBrowser = "open")
    /\ (Tried("captureLaunch") \/ pc \in ImgPcs \cup ChartPcs \/ captureBrowser # "none") =>
          /\ endpoint \in NbcEndpoints
          /\ scrapeBrowser = "closed"
          /\ \E i \in 1..Len(log) :
                /\ log[i].op = "close"
                /\ \A j \in 1..Len(log) : log[j].op = "captureLaunch" => i < j

\* The capture browser of the chart endpoint is open and about to take the
\* screenshot, after the scraping browser was closed.
C28_Witness ==
    /\ endpoint = "chart"
    /\ captureBrowser = "open"
    /\ scrapeBrowser = "closed"
    /\ pc = "chart_screenshot"


----------------------------------------------------------------------------
(* The clean-up of the daily report's temporary image.                     *)

\* sendImageToTelegram has returned.
SendFinished == telegram \in {"skipped", "no_file", "sent", "rejected", "error"}

ReportSent == Response(200, "json", "report_sent")

\* C29: in the daily report the temporary image is never deleted before the
\* send attempt has finished; the deletion is started before the response is
\* sent and is not awaited, so the response does not depend on its outcome.
C29_UnlinkAfterSendNotAwaited ==
    /\ unlinkState # "none" => endpoint = "daily" /\ SendFinished /\ pc \notin {"tg_cfg", "tg_fetch", "tg_json"}
    /\ (endpoint = "daily" /\ Tried("screenshot") /\ ~Failed("screenshot")
          /\ ImageFile \notin files) =>
          unlinkState = "deleted"
    /\ (\E i \in 1..Len(responses) : responses[i] = ReportSent) => unlinkState # "none"
    /\ (pc = "done" /\ unlinkState # "none") => responses = <<ReportSent>>
    /\ pc = "daily_respond" => unlinkState # "none"

\* The success response has been sent while the deletion is still under way
\* and the file still exists.
C29_Witness ==
    /\ pc = "done"
    /\ responses = <<ReportSent>>
    /\ telegram = "sent"
    /\ unlinkState = "pending"
    /\ ImageFile \in files


----------------------------------------------------------------------------
(* The detailed table missing, and the detailed table without rows.        *)

\* page.evaluate has run on a document without the detailed table.
TableMissing == Tried("evaluate") /\ ~page.hasTable

\* page.evaluate has run on a document whose detailed table holds no row.
TableEmpty == Tried("evaluate") /\ page.hasTable /\ page.rows = <<>>

\* C30: without a 'table.tbl-responsive' element scrapeNBC returns a snapshot
\* with empty detailed_rates and does not fail; with the element present but
\* holding no row the extraction raises, scrapeNBC fails after closing its
\* browser, and the request is answered with a failure response.
C30_MissingTableToleratedEmptyTableNot ==
    endpoint \in NbcEndpoints =>
        /\ (TableMissing /\ ~Failed("evaluate")) =>
              /\ data.detailed_rates = <<>>
              /\ data.official_exchange_rate = Trim(page.rateText)
              /\ pc = "nbc_finally" => exc = "none"
              /\ pc = "ep_catch" => \E op \in StepsAfterScrape : Tried(op)
              /\ pc = "done" => \/ \E op \in StepsAfterScrape : Tried(op)
                                \/ responses = <<Response(404, "json", "no_data")>>
        /\ TableEmpty =>
              /\ Failed("evaluate")
              /\ data = EmptySnapshot
              /\ \A op \in StepsAfterScrape : ~Tried(op)
              /\ pc \in {"nbc_finally", "ep_catch", "done"}
              /\ pc = "nbc_finally" => exc # "none"
              /\ pc \in {"ep_catch", "done"} => scrapeBrowser = "closed" /\ Tried("close")
              /\ pc = "done" =>
                    responses = <<Response(500, IF endpoint \in {"table", "filtered"}
                                                THEN "text" ELSE "json", "error")>>

\* The extraction raised on a table without rows and the request was answered
\* with the failure response, the browser closed.
C30_Witness ==
    /\ pc = "done"
    /\ endpoint = "table"
    /\ TableEmpty
    /\ warnings = <<>>
    /\ scrapeBrowser = "closed"
    /\ responses = <<Response(500, "text", "error")>>


----------------------------------------------------------------------------
(* The table of generateHtmlTable, read back from the document.            *)

\* The contents of the elements that open with atom o and close with atom c,
\* in document order, as an HTML parser delimits them.
RECURSIVE Elements(_, _, _)
Elements(doc, o, c) ==
    IF CountAtom(doc, o) = 0 THEN <<>>
    ELSE LET i == FirstAtom(doc, o, 1)
             rest == SubSeq(doc, i + 1, Len(doc))
         IN  IF CountAtom(rest, c) = 0 THEN <<rest>>
             ELSE LET j == FirstAtom(rest, c, 1)
                  IN  <<SubSeq(rest, 1, j - 1)>>
                          \o Elements(SubSeq(rest, j + 1, Len(rest)), o, c)

\* C26: for a non-empty detailed_rates the header row of the emitted table is
\* exactly the keys of detailed_rates[0], in their order; there is one body
\* row per record, in record order, and each has exactly one cell per header
\* key, holding that record's value for that key.
C26_TableMirrorsRecords ==
    (pc = "table_rendered" /\ ~NoRates) =>
        LET recs    == data.detailed_rates
            headers == ObjectKeys(recs[1])
            heads   == Elements(html, "<thead>", "</thead>")
            bodies  == Elements(html, "<tbody>", "</tbody>")
        IN  /\ Len(heads) = 1 /\ Len(bodies) = 1
            /\ Elements(heads[1], "<th>", "</th>") = headers
            /\ LET rows == Elements(bodies[1], "<tr>", "</tr>")
               IN  /\ Len(rows) = Len(recs)
                   /\ \A r \in 1..Len(rows) :
                         LET cells == Elements(rows[r], "<td>", "</td>")
                         IN  /\ Len(cells) = Len(headers)
                             /\ \A k \in 1..Len(cells) :
                                   cells[k] = Interpolate(ObjGet(recs[r], headers[k]))


----------------------------------------------------------------------------
(* The snapshot after the extraction.                                      *)

\* C23: a snapshot is never changed after the extraction: rendering,
\* filtering, JSON persistence, image capture and notification leave the
\* scraped snapshot and each of its records as they were, and filtering
\* builds a new snapshot instead of changing the source one.
C23_SnapshotNotMutated ==
    [][/\ data' # data => pc = "nbc_evaluate" /\ data = EmptySnapshot
       /\ filteredData' # filteredData =>
              /\ pc = "ep_scraped" /\ endpoint = "filtered"
              /\ data' = data
              /\ filteredData = EmptySnapshot]_vars

\* The filtered table was served: the filter dropped a record and the
\* scraped snapshot still holds both.
C23_Witness ==
    /\ pc = "done"
    /\ endpoint = "filtered"
    /\ responses = <<Response(200, "html", "table")>>
    /\ Len(data.detailed_rates) = 2
    /\ Len(filteredData.detailed_rates) = 1
    /\ filteredData.exchange_date = data.exchange_date


----------------------------------------------------------------------------
(* The request pipeline when browser.close() may reject.  Spec takes the   *)
(* close in every finally block to resolve; here the awaited close may     *)
(* also reject, and the rejection leaves the finally block in place of     *)
(* whatever the function was about to return or throw.                     *)

\* finally { if (browser) await browser.close() } of a scraping function
ScrapeFinallyMayReject(at, exit) ==
    /\ pc = at
    /\ IF scrapeBrowser = "open"
       THEN \E ok \in BOOLEAN :
              /\ log' = Append(log, Step("close", ok))
              /\ scrapeBrowser' \in (IF ok THEN {"closed"} ELSE {"closed", "open"})
              /\ pc' = IF ok THEN exit ELSE "ep_catch"
              /\ exc' = IF ok THEN exc ELSE "close"
       ELSE pc' = exit /\ UNCHANGED <<log, scrapeBrowser, exc>>
    /\ UNCHANGED <<reqVars, captureBrowser, scrapeVars, captureVars, fsVars, outVars>>

NbcFinallyMayReject == ScrapeFinallyMayReject("nbc_finally", NbcExit)

NssfFinallyMayReject ==
    ScrapeFinallyMayReject("nssf_finally", IF exc = "none" THEN "ep_json" ELSE "ep_catch")

GdtFinallyMayReject ==
    ScrapeFinallyMayReject("gdt_finally", IF exc = "none" THEN "ep_json" ELSE "ep_catch")

\* The finally of saveHtmlTableAsImage and of the chart handler's inner try.
\* A rejection leaves saveHtmlTableAsImage as a throw, and the chart handler's
\* inner try for the outer catch.
CaptureFinallyMayReject(at, exit) ==
    /\ pc = at
    /\ IF captureBrowser = "open"
       THEN \E ok \in BOOLEAN :
              /\ log' = Append(log, Step("captureClose", ok))
              /\ captureBrowser' \in (IF ok THEN {"closed"} ELSE {"closed", "open"})
              /\ pc' = IF ok THEN exit ELSE "ep_catch"
              /\ exc' = IF ok THEN exc ELSE "close"
       ELSE pc' = exit /\ UNCHANGED <<log, captureBrowser, exc>>
    /\ UNCHANGED <<reqVars, scrapeBrowser, scrapeVars, captureVars, fsVars, outVars>>

ImgFinallyMayReject == CaptureFinallyMayReject("img_finally", AfterCapture)

ChartFinallyMayReject == CaptureFinallyMayReject("chart_finally", "done")

NextClose ==
    \/ Receive
    \/ NbcConfig \/ NbcLaunch \/ NbcNewPage \/ NbcGoto \/ NbcFocus \/ NbcClear
    \/ NbcType \/ NbcClick \/ NbcWaitNav \/ NbcEvaluate \/ NbcFinallyMayReject
    \/ NssfConfig \/ NssfLaunch \/ NssfNewPage \/ NssfGoto \/ NssfEvaluate
    \/ NssfFinallyMayReject
    \/ GdtConfig \/ GdtLaunch \/ GdtNewPage \/ GdtGoto \/ GdtEvaluate \/ GdtFinallyMayReject
    \/ EpRenderTable \/ EpFilterRender \/ EpChart \/ SaveJsonData
    \/ ImgMkdir \/ ImgLaunch \/ ImgNewPage \/ ImgSetContent \/ ImgMeasure
    \/ ImgSetViewport \/ ImgFind \/ ImgScreenshot \/ ImgFinallyMayReject
    \/ EpSendHtml \/ DailyBranch \/ TgConfig \/ TgFetch \/ TgJson
    \/ DailyUnlink \/ DailyRespond \/ UnlinkDone
    \/ ChartLaunch \/ ChartNewPage \/ ChartSetViewport \/ ChartSetContent
    \/ ChartFind \/ ChartScreenshot \/ ChartCatch \/ ChartFinallyMayReject
    \/ EpJson \/ EpCatch

SpecClose == Init /\ [][NextClose]_vars

\* C27: every request is answered with exactly one response on every path:
\* no second response is sent after one was sent, also when closing the
\* capture browser fails after the chart image was sent, and no handler ends
\* without a response.
C27_ExactlyOneResponse ==
    /\ Len(responses) <= 1
    /\ pc = "done" => Len(responses) = 1


----------------------------------------------------------------------------
(* Two requests to /nbc-exr-rate at the same time, from the moment each    *)
(* has rendered its table: saveJsonData, then saveHtmlTableAsImage.  In    *)
(* this specification pc, data and imagePath hold one value per request,   *)
(* files holds [name, by] for the file of each name and the request that   *)
(* wrote it last, and log records what touched the file system.  The two   *)
(* requests may be served by one process or by two processes on the same   *)
(* file system, so that a step of one may fall between the existsSync and  *)
(* the mkdirSync of the other.  The parent directory is writable: a        *)
(* creation can fail only on what the other request did.                   *)

Requests == {1, 2}

\* The last clock reading of the model, in milliseconds.
MaxClock == 1

\* new Date().toISOString() at millisecond t
IsoOf(t) ==
    <<"2025", "-", "07", "-", "04", "T", "10", ":", "00", ":", "00", ".", "00", ToString(t), "Z">>

PairDates == {DatePlain, <<"2025", "-", "07", "-", "05">>}

\* Mutant of MkdirSync: without the recursive option an existing directory
\* makes the creation throw EEXIST.
MkdirSyncPlain(ds, dir) == [ok |-> dir \notin ds, dirs |-> ds \cup {dir}]

\* fs.mkdirSync(dir, { recursive: true }): creates dir, and does not throw
\* when dir exists already.
MkdirSync(ds, dir) == [ok |-> TRUE, dirs |-> ds \cup {dir}]

\* The clock does not run backwards: a reading is not before any earlier one.
ClockReadings ==
    {t \in 0..MaxClock : \A i \in 1..Len(log) : log[i].op = "write" => log[i].at <= t}

InitPair ==
    /\ env = EnvVars
    /\ dirs \in SUBSET {"./data_json", "./images"}
    /\ endpoint = "table"
    /\ date = <<>>
    /\ pc = [r \in Requests |-> "json_exists"]
    /\ exc = "none"
    /\ log = <<>>
    /\ scrapeBrowser = "closed"
    /\ captureBrowser = "none"
    /\ page = NoPage
    /\ data \in [Requests -> { [exchange_date |-> d, official_exchange_rate |-> <<"4015">>,
                                detailed_rates |-> <<>>] : d \in PairDates }]
    /\ filteredData = EmptySnapshot
    /\ scraped = "none"
    /\ warnings = <<>>
    /\ html = <<>>
    /\ container = "found"
    /\ imagePath = [r \in Requests |-> <<>>]
    /\ files = {}
    /\ responses = <<>>
    /\ telegram = "none"
    /\ unlinkState = "none"

\* if (!fs.existsSync(dir)) of saveJsonData and of saveHtmlTableAsImage
PairExists(r) ==
    /\ pc[r] \in {"json_exists", "img_exists"}
    /\ LET dir == IF pc[r] = "json_exists" THEN "./data_json" ELSE "./images"
           mk  == IF pc[r] = "json_exists" THEN "json_mkdir" ELSE "img_mkdir"
           go  == IF pc[r] = "json_exists" THEN "json_write" ELSE "img_name"
       IN  /\ log' = Append(log, [op |-> "existsSync", by |-> r, dir |-> dir,
                                  ok |-> dir \in dirs])
           /\ pc' = [pc EXCEPT ![r] = IF dir \in dirs THEN go ELSE mk]
    /\ UNCHANGED <<reqVars, exc, browserVars, scrapeVars, html, container, imagePath,
                   fsVars, outVars>>

\* fs.mkdirSync(dir, { recursive: true }); a throw ends the request
PairMkdir(r) ==
    /\ pc[r] \in {"json_mkdir", "img_mkdir"}
    /\ LET dir == IF pc[r] = "json_mkdir" THEN "./data_json" ELSE "./images"
           go  == IF pc[r] = "json_mkdir" THEN "json_write" ELSE "img_name"
           res == MkdirSync(dirs, dir)
       IN  /\ log' = Append(log, [op |-> "mkdirSync", by |-> r, dir |-> dir, ok |-> res.ok])
           /\ dirs' = IF res.ok THEN res.dirs ELSE dirs
           /\ pc' = [pc EXCEPT ![r] = IF res.ok THEN go ELSE "failed"]
    /\ UNCHANGED <<reqVars, exc, browserVars, scrapeVars, captureVars, files, outVars>>

\* The file of that name is written, or written over.
WriteFile(fs, name, r) == {f \in fs : f.name # name} \cup {[name |-> name, by |-> r]}

\* new Date(), the file name and fs.writeFileSync(jsonFilename, ...)
PairWriteJson(r) ==
    /\ pc[r] = "json_write"
    /\ \E t \in ClockReadings :
          LET name == JsonFilename("./data_json", data[r].exchange_date, IsoOf(t))
          IN  /\ files' = WriteFile(files, name, r)
              /\ log' = Append(log, [op |-> "write", by |-> r, name |-> name, at |-> t])
    /\ pc' = [pc EXCEPT ![r] = "img_exists"]
    /\ UNCHANGED <<reqVars, exc, browserVars, scrapeVars, captureVars, dirs, outVars>>

\* if (container) { const now = new Date(); ... const imagePath = path.join(...) }
PairNameImage(r) ==
    /\ pc[r] = "img_name"
    /\ \E t \in ClockReadings :
          /\ imagePath' = [imagePath EXCEPT
                             ![r] = ImageFilename(FALSE, FALSE, data[r].exchange_date, IsoOf(t))]
          /\ log' = Append(log, [op |-> "now", by |-> r, at |-> t])
    /\ pc' = [pc EXCEPT ![r] = "img_screenshot"]
    /\ UNCHANGED <<reqVars, exc, browserVars, scrapeVars, html, container, fsVars, outVars>>

\* await container.screenshot({ path: imagePath })
PairScreenshot(r) ==
    /\ pc[r] = "img_screenshot"
    /\ files' = WriteFile(files, imagePath[r], r)
    /\ log' = Append(log, [op |-> "write", by |-> r, name |-> imagePath[r],
                           at |-> LET i == CHOOSE i \in 1..Len(log) :
                                               /\ log[i].op = "now" /\ log[i].by = r
                                  IN  log[i].at])
    /\ pc' = [pc EXCEPT ![r] = "done"]
    /\ UNCHANGED <<reqVars, exc, browserVars, scrapeVars, captureVars, dirs, outVars>>

NextPair ==
    \E r \in Requests :
        \/ PairExists(r) \/ PairMkdir(r) \/ PairWriteJson(r)
        \/ PairNameImage(r) \/ PairScreenshot(r)

SpecPair == InitPair /\ [][NextPair]_vars


Writes == {i \in 1..Len(log) : log[i].op = "write"}

\* C21: two requests running at the same time never produce the same file
\* name, whatever the interleaving, the scraped dates and the capture
\* instants: no file written by one request is written over by the other.
C21_NoSharedFilename ==
    \A i, j \in Writes : log[i].by # log[j].by => log[i].name # log[j].name

Creations(dir) == {i \in 1..Len(log) : log[i].op = "mkdirSync" /\ log[i].dir = dir}

FoundAbsent(r, dir) ==
    \E i \in 1..Len(log) :
        log[i] = [op |-> "existsSync", by |-> r, dir |-> dir, ok |-> FALSE]

\* C22: the check-then-create of the image and data directories is safe when
\* two requests both find the directory absent: neither fails because of
\* the creation, and the directory exists afterwards.
C22_CheckThenCreateIsSafe ==
    /\ \A i \in 1..Len(log) : log[i].op = "mkdirSync" => log[i].ok
    /\ \A r \in Requests :
          /\ pc[r] # "failed"
          /\ pc[r] \notin {"json_exists", "json_mkdir"} => "./data_json" \in dirs
          /\ pc[r] \in {"img_name", "img_screenshot", "done"} => "./images" \in dirs
    /\ \A f \in files : \E d \in dirs : Head(f.name) = (IF d = "./images" THEN "images" ELSE d)

\* Both requests found the data directory absent and, later, the image
\* directory absent, each created both, and both have finished.
C22_Witness ==
    /\ \A r \in Requests : pc[r] = "done"
    /\ \A r \in Requests : FoundAbsent(r, "./data_json") /\ FoundAbsent(r, "./images")
    /\ Cardinality(Creations("./data_json")) = 2
    /\ Cardinality(Creations("./images")) = 2
    /\ dirs = {"./data_json", "./images"}

====
